---- MODULE Spec2Model ----
(***************************************************************************)
(* Risk-gated execution simulator of the MT5 trading bot.                  *)
(*                                                                         *)
(*   StrategyTesterEngine   src/mt5-trading-bot/src/backtesting/engine.py  *)
(*   RiskEngine             src/mt5-trading-bot/src/risk/risk_engine.py    *)
(*   RiskLimits             src/mt5-trading-bot/src/risk/limits.py         *)
(*   RiskState              src/mt5-trading-bot/src/risk/state.py          *)
(*                                                                         *)
(* Units.  Prices are integers in price units, volumes integers in lots,   *)
(* money is price * lots exactly as the engine computes it                 *)
(* (mark_to_market multiplies a price difference by the volume).  Ratios   *)
(* (drawdown, exposure, loss limits) are compared by cross-multiplication, *)
(* percentages being integers out of 100.  The wall clock read by          *)
(* datetime.now() is the variable now, in minutes.                         *)
(***************************************************************************)
EXTENDS Integers, Sequences, FiniteSets, TLC

\* ------------------------------------------------------------------ bounds
MaxBars == 2
MaxRecs == 2
MaxClock == 60
ClockStep == 30
MaxDay == 1
BarsPerDay == 2

MaxPositions == 2
MaxDailyPnl == 6
MaxPlanEnd == 8
MaxSampleDays == 3
MaxTopN == 3
MaxData == 4
MaxTrades == 3
MaxCloses == 3
MaxRetries == 3
MaxThreads == 3

\* ------------------------------------------------- configuration (RiskConfig)
MaxDrawdownPct == 20
DailyLossLimitPct == 5
MaxTotalExposurePct == 50
CooldownMinutes == 60

\* ------------------------------------------- configuration (BacktestSettings)
InitialDeposit == 10000
SpreadPoints == 3000
SlippagePoints == 2000
RewardRiskRatio == 2
CommissionPerLot == 1000000
STANDARD_CONTRACT_SIZE == 100000

\* ------------------------------------------------------------------ inputs
\* Python's None, for an optional price or time (never a valid one).
None == -1
Symbols == {"XAUUSD"}
UnknownSymbol == "EURUSD"

\* The threads that call into one MarketDataStreamer.
Callers == {1, 2}

\* settings.max_holding_bars of a run.
HoldingBars == {1, 2}

\* A bar of one symbol (open and volume are never read by the engine): a
\* falling bar, a rising bar and a wide bar that closes where it opened.
Bars ==
    {[low |-> 2500, close |-> 2500, high |-> 3000],
     [low |-> 3000, close |-> 3500, high |-> 3500],
     [low |-> 2500, close |-> 3000, high |-> 3500]}

\* StrategyRecommendation: without levels (the engine derives them) or with a
\* stop-loss and a take-profit; size is the number of lots
\* calculate_position_size returns for it.
Entries ==
    {[symbol |-> "XAUUSD", signal |-> "buy", stop_loss |-> None,
      take_profit |-> None, size |-> 1],
     [symbol |-> "XAUUSD", signal |-> "buy", stop_loss |-> 2500,
      take_profit |-> 4000, size |-> 2],
     [symbol |-> "XAUUSD", signal |-> "sell", stop_loss |-> None,
      take_profit |-> None, size |-> 1],
     [symbol |-> "XAUUSD", signal |-> "sell", stop_loss |-> 3500,
      take_profit |-> 2000, size |-> 2]}

\* A HOLD, and a recommendation for a symbol that has no bar.
Skipped ==
    {[symbol |-> "XAUUSD", signal |-> "hold", stop_loss |-> None,
      take_profit |-> None, size |-> 1],
     [symbol |-> UnknownSymbol, signal |-> "buy", stop_loss |-> None,
      take_profit |-> None, size |-> 1]}

\* What get_recommendations returns for a bar.  A skipped recommendation
\* leaves the engine untouched wherever it stands in the list, so it is
\* followed by at most one entry.
RecommendationLists ==
    UNION {[1..n -> Entries] : n \in 0..MaxRecs}
        \cup {<<r>> : r \in Skipped}
        \cup {<<r, e>> : r \in Skipped, e \in Entries}

VARIABLES
    streamer,        \* a MarketDataStreamer, its polling threads and its callers
    emergency_stop,  \* EmergencyStop._state of a SafetyController
    max_holding_bars, \* settings.max_holding_bars
    pc,              \* position of run(): "loop", "mark", "signals", "append",
                     \*   "done" (returned), "error" (raised)
    idx,             \* number of bars taken from the timeline so far
    day,             \* calendar day of the current bar's timestamp
    current_bars,    \* the bar of each symbol at the current index
    equity,          \* run()'s local equity of the current bar
    balance,         \* StrategyTesterEngine.balance
    open_positions,  \* StrategyTesterEngine.open_positions
    trade_log,       \* StrategyTesterEngine.trade_log
    equity_points,   \* run()'s equity_points
    account_state,   \* RiskState.account_state
    positions,       \* RiskState.positions
    daily_pnl,       \* RiskState.daily_pnl
    max_drawdown,    \* RiskState.max_drawdown, as the fraction num / den
    peak_equity,     \* RiskState.peak_equity
    last_loss_time,  \* RiskLimits.last_loss_time
    cooldown_active, \* RiskLimits.cooldown_active
    now,             \* the wall clock datetime.now() reads
    next_id,         \* number of PositionState objects created (object identity)
    processed,       \* observer: what the last _process_open_positions or
                     \*   _liquidate_all did with each position
    validations,     \* observer: the validate_trade calls of the last bar
    already_open,    \* observer: the (symbol, direction) pairs of the last bar's
                     \*   recommendations that _has_open_position turned away
    snapshots,       \* observer: the snapshots update_account has received
    loss_clock,      \* observer: wall clock of the last losing close
    call,            \* the last call of a function checked on its own:
                     \*   its name, its arguments and what it returned or raised
    enforcer,        \* the RiskState of src/risk/state.py that a
                     \*   RiskLimitEnforcer works on
    history,         \* run()'s history: the bars of the whole series
    market_snapshot, \* observer: the records the strategies were last queried
                     \*   with
    config           \* the sizing settings the RiskEngine (risk) and the
                     \*   PositionSizer (position_sizing) were constructed with

vars == <<max_holding_bars, pc, idx, day, current_bars, equity, balance, open_positions,
          trade_log, equity_points, account_state, positions,
          daily_pnl, max_drawdown, peak_equity, last_loss_time,
          cooldown_active, now, next_id, processed, validations,
          already_open, snapshots, loss_clock,
          call, enforcer, config, history, market_snapshot,
          emergency_stop,
          streamer>>

\* MarketDataStreamer.__init__: no thread, the stop event clear, no
\* subscription; threads holds every Thread object the streamer can create
\* ("new" before start(), "check" at the loop test of _run, "poll" inside the
\* loop body, "exited" after _run returned), callers the position of each
\* calling thread, join_expired whether a join has timed out.
NewStreamer ==
    [_thread |-> None, _stop |-> FALSE, ticks |-> FALSE, rates |-> FALSE,
     threads |-> [t \in 1..MaxThreads |-> "new"],
     callers |-> [c \in Callers |-> "idle"],
     join_expired |-> FALSE]

\* EmergencyStopState(): not triggered.
NoEmergencyStop == [triggered |-> FALSE, reason |-> <<>>, triggered_at |-> None]

\* ------------------------------------------------------------ small helpers
Abs(x) == IF x < 0 THEN -x ELSE x

Max(a, b) == IF a > b THEN a ELSE b

\* ---------------------------------------------------------------- RiskState
\* RiskState.account_state is None until the first update_account.
NoAccount == [present |-> FALSE, balance |-> 0, equity |-> 0, timestamp |-> 0]

AccountState(bal, eq, ts) ==
    [present |-> TRUE, balance |-> bal, equity |-> eq, timestamp |-> ts]

\* RiskState.update_account: the new (peak_equity, max_drawdown).
update_account_peak(peak, eq) == IF eq > peak THEN eq ELSE peak

\* Faulty variant of update_account: the drawdown is recomputed only when the
\* snapshot sets a new peak.
update_account_drawdown_on_new_peak(peak, dd, eq) ==
    IF eq > peak /\ eq > 0 THEN [num |-> 0, den |-> eq] ELSE dd

update_account_drawdown(peak, dd, eq) ==
    IF update_account_peak(peak, eq) > 0
    THEN [num |-> update_account_peak(peak, eq) - eq,
          den |-> update_account_peak(peak, eq)]
    ELSE dd

\* RiskState.update_account never touches daily_pnl.
update_account_daily_pnl(dpnl, acct, prev) == dpnl

\* PositionState equality is the dataclass's field-wise equality; id stands
\* for the object's identity and takes no part in it.
PositionValue(p) ==
    [symbol |-> p.symbol, volume |-> p.volume, entry_price |-> p.entry_price,
     current_price |-> p.current_price, profit |-> p.profit,
     timestamp |-> p.timestamp]

\* RiskState.get_total_exposure, as the pair (sum of notionals, equity); the
\* caller in check_exposure has already required equity > 0.
RECURSIVE Notional(_)
Notional(ps) ==
    IF ps = <<>> THEN 0
    ELSE Head(ps).volume * Head(ps).current_price + Notional(Tail(ps))

\* --------------------------------------------------------------- RiskLimits
OK == "OK"

_require_account_state(acct) ==
    IF ~acct.present THEN [ok |-> FALSE, reason |-> "account state unavailable"]
    ELSE IF acct.balance <= 0 \/ acct.equity <= 0
         THEN [ok |-> FALSE, reason |-> "invalid account balance/equity"]
    ELSE [ok |-> TRUE, reason |-> OK]

\* max_drawdown > max_drawdown_pct, strictly.
check_drawdown(dd) ==
    IF dd.num * 100 > MaxDrawdownPct * dd.den
    THEN [ok |-> FALSE, reason |-> "Max drawdown exceeded"]
    ELSE [ok |-> TRUE, reason |-> OK]

check_daily_loss(acct, dpnl) ==
    IF ~_require_account_state(acct).ok THEN _require_account_state(acct)
    ELSE IF acct.balance * Abs(DailyLossLimitPct) <= 0
         THEN [ok |-> FALSE, reason |-> "Daily loss limit configuration invalid"]
    ELSE IF dpnl * 100 < -(acct.balance * Abs(DailyLossLimitPct))
         THEN [ok |-> FALSE, reason |-> "Daily loss limit exceeded"]
    ELSE [ok |-> TRUE, reason |-> OK]

check_exposure(acct, ps) ==
    IF ~_require_account_state(acct).ok THEN _require_account_state(acct)
    ELSE IF Notional(ps) * 100 > MaxTotalExposurePct * acct.equity
         THEN [ok |-> FALSE, reason |-> "Max exposure exceeded"]
    ELSE [ok |-> TRUE, reason |-> OK]

\* Faulty variant of check_cooldown: the cooldown still holds when exactly
\* the configured minutes have elapsed.
check_cooldown_inclusive(active, last, clock) ==
    IF active /\ last # None
    THEN IF clock - last <= CooldownMinutes
         THEN [ok |-> FALSE, reason |-> "Cooldown active", active |-> TRUE]
         ELSE [ok |-> TRUE, reason |-> "OK", active |-> FALSE]
    ELSE [ok |-> TRUE, reason |-> "OK", active |-> active]

\* check_cooldown: active is the value cooldown_active has after the call.
check_cooldown(active, last, clock) ==
    IF active /\ last # None
    THEN IF clock - last < CooldownMinutes
         THEN [ok |-> FALSE, reason |-> "Cooldown active", active |-> TRUE]
         ELSE [ok |-> TRUE, reason |-> OK, active |-> FALSE]
    ELSE [ok |-> TRUE, reason |-> OK, active |-> active]

\* --------------------------------------------------------------- RiskEngine
\* Faulty variant of validate_trade: the cooldown is never consulted.
validate_trade_without_cooldown(dd, acct, dpnl, ps, active, last, clock) ==
    IF ~check_drawdown(dd).ok
    THEN [ok |-> FALSE, check |-> "drawdown", reason |-> check_drawdown(dd).reason,
          evaluated |-> <<"drawdown">>, active |-> active]
    ELSE IF ~check_daily_loss(acct, dpnl).ok
    THEN [ok |-> FALSE, check |-> "daily_loss",
          reason |-> check_daily_loss(acct, dpnl).reason,
          evaluated |-> <<"drawdown", "daily_loss">>, active |-> active]
    ELSE IF ~check_exposure(acct, ps).ok
    THEN [ok |-> FALSE, check |-> "exposure",
          reason |-> check_exposure(acct, ps).reason,
          evaluated |-> <<"drawdown", "daily_loss", "exposure">>, active |-> active]
    ELSE [ok |-> TRUE, check |-> "", reason |-> OK,
          evaluated |-> <<"drawdown", "daily_loss", "exposure">>, active |-> active]

\* validate_trade: check names the check that rejected ("" when none did),
\* evaluated the checks that were run, in order.
Verdict(ok, check, reason, evaluated, active) ==
    [ok |-> ok, check |-> check, reason |-> reason, evaluated |-> evaluated,
     active |-> active]

validate_trade(dd, acct, dpnl, ps, active, last, clock) ==
    IF ~check_drawdown(dd).ok
    THEN Verdict(FALSE, "drawdown", check_drawdown(dd).reason, <<"drawdown">>, active)
    ELSE IF ~check_daily_loss(acct, dpnl).ok
    THEN Verdict(FALSE, "daily_loss", check_daily_loss(acct, dpnl).reason,
                 <<"drawdown", "daily_loss">>, active)
    ELSE IF ~check_exposure(acct, ps).ok
    THEN Verdict(FALSE, "exposure", check_exposure(acct, ps).reason,
                 <<"drawdown", "daily_loss", "exposure">>, active)
    ELSE IF ~check_cooldown(active, last, clock).ok
    THEN Verdict(FALSE, "cooldown", check_cooldown(active, last, clock).reason,
                 <<"drawdown", "daily_loss", "exposure", "cooldown">>, TRUE)
    ELSE Verdict(TRUE, "", OK, <<"drawdown", "daily_loss", "exposure", "cooldown">>,
                 check_cooldown(active, last, clock).active)

\* The checks that fail in the state a validation starts from.
Breached(dd, acct, dpnl, ps, active, last, clock) ==
    (IF check_cooldown(active, last, clock).ok THEN {} ELSE {"cooldown"})
    \cup (IF check_drawdown(dd).ok THEN {} ELSE {"drawdown"})
    \cup (IF check_daily_loss(acct, dpnl).ok THEN {} ELSE {"daily_loss"})
    \cup (IF check_exposure(acct, ps).ok THEN {} ELSE {"exposure"})

\* ----------------------------------------------------- StrategyTesterEngine
\* _point_value, in units of 1/100000 of a price unit.
_point_value(price) ==
    IF price < 2 THEN 1
    ELSE IF price < 20 THEN 10
    ELSE IF price < 200 THEN 100
    ELSE IF price < 2000 THEN 1000
    ELSE 10000

\* _apply_costs: spread + slippage added to a buy, subtracted from a sell.
_apply_costs(price, signal) ==
    IF signal = "buy"
    THEN price + ((SpreadPoints + SlippagePoints) * _point_value(price)) \div 100000
    ELSE IF signal = "sell"
    THEN price - ((SpreadPoints + SlippagePoints) * _point_value(price)) \div 100000
    ELSE price

\* _derive_levels: default stop 0.2 % of the entry price away, default target
\* reward_risk_ratio times the stop distance away.
_derive_stop(rec, entry_price) ==
    IF rec.stop_loss # None THEN rec.stop_loss
    ELSE IF rec.signal = "buy" THEN entry_price - (entry_price * 2) \div 1000
    ELSE entry_price + (entry_price * 2) \div 1000

_derive_target(rec, entry_price) ==
    IF rec.take_profit # None THEN rec.take_profit
    ELSE IF rec.signal = "buy"
    THEN entry_price + Abs(entry_price - _derive_stop(rec, entry_price)) * RewardRiskRatio
    ELSE entry_price - Abs(entry_price - _derive_stop(rec, entry_price)) * RewardRiskRatio

\* SimulatedPosition.mark_to_market
mark_to_market(p, price) ==
    IF p.direction = "buy" THEN (price - p.entry_price) * p.volume
    ELSE (p.entry_price - price) * p.volume

\* SimulatedPosition.update_extremes
update_extremes(p, high, low) ==
    IF p.direction = "buy"
    THEN [p EXCEPT !.mfe = Max(p.mfe, high - p.entry_price),
                   !.mae = IF low - p.entry_price < p.mae
                           THEN low - p.entry_price ELSE p.mae]
    ELSE [p EXCEPT !.mfe = Max(p.mfe, p.entry_price - low),
                   !.mae = IF p.entry_price - high < p.mae
                           THEN p.entry_price - high ELSE p.mae]

\* Faulty variant of the exit test: the target is tested before the stop.
ExitOnBarTargetFirst(p, bar) ==
    IF p.direction = "buy"
    THEN IF bar.high >= p.take_profit
         THEN [price |-> p.take_profit, reason |-> "target"]
         ELSE IF bar.low <= p.stop_loss
         THEN [price |-> p.stop_loss, reason |-> "stop"]
         ELSE [price |-> None, reason |-> ""]
    ELSE IF bar.low <= p.take_profit
         THEN [price |-> p.take_profit, reason |-> "target"]
         ELSE IF bar.high >= p.stop_loss
         THEN [price |-> p.stop_loss, reason |-> "stop"]
         ELSE [price |-> None, reason |-> ""]

\* The exit a bar forces on a position, before the timeout rule: the stop is
\* tested first, the target only when the stop was not reached.
ExitOnBar(p, bar) ==
    IF p.direction = "buy"
    THEN IF bar.low <= p.stop_loss
         THEN [price |-> p.stop_loss, reason |-> "stop"]
         ELSE IF bar.high >= p.take_profit
         THEN [price |-> p.take_profit, reason |-> "target"]
         ELSE [price |-> None, reason |-> ""]
    ELSE IF bar.high >= p.stop_loss
         THEN [price |-> p.stop_loss, reason |-> "stop"]
         ELSE IF bar.low <= p.take_profit
         THEN [price |-> p.take_profit, reason |-> "target"]
         ELSE [price |-> None, reason |-> ""]

\* Faulty variant of the timeout rule: bars_held must exceed the limit.
ExitWithTimeoutLate(p, bar, exit) ==
    IF exit.price = None /\ p.bars_held > max_holding_bars
    THEN [price |-> bar.close, reason |-> "timeout"]
    ELSE exit

\* The timeout rule, applied after bars_held was incremented.
ExitWithTimeout(p, bar, exit) ==
    IF exit.price = None /\ p.bars_held >= max_holding_bars
    THEN [price |-> bar.close, reason |-> "timeout"]
    ELSE exit

\* x in list, by value of the PositionState.
HasValue(ps, rp) == \E i \in 1..Len(ps) : PositionValue(ps[i]) = PositionValue(rp)

RECURSIVE RemoveValue(_, _)
RemoveValue(ps, rp) ==
    IF ps = <<>> THEN <<>>
    ELSE IF PositionValue(Head(ps)) = PositionValue(rp) THEN Tail(ps)
    ELSE <<Head(ps)>> \o RemoveValue(Tail(ps), rp)

\* _close_position on the engine state st; the caller adds pnl to the balance.
ClosePnl(p, exit_price) ==
    mark_to_market(p, exit_price)
        - (CommissionPerLot * p.volume) \div STANDARD_CONTRACT_SIZE

TradeResult(p, exit_price, timestamp, reason) ==
    [symbol |-> p.symbol, direction |-> p.direction, entry_time |-> p.entry_time,
     exit_time |-> timestamp, entry_price |-> p.entry_price,
     exit_price |-> exit_price, volume |-> p.volume,
     pnl |-> ClosePnl(p, exit_price),
     fees |-> (CommissionPerLot * p.volume) \div STANDARD_CONTRACT_SIZE,
     mae |-> p.mae, mfe |-> p.mfe, exit_reason |-> reason]

_close_position(st, p, exit_price, timestamp, reason, clock) ==
    [st EXCEPT
        !.trade_log = Append(st.trade_log, TradeResult(p, exit_price, timestamp, reason)),
        !.positions = IF HasValue(st.positions, p.risk_position)
                      THEN RemoveValue(st.positions, p.risk_position)
                      ELSE st.positions,
        !.daily_pnl = st.daily_pnl + ClosePnl(p, exit_price),
        !.last_loss_time = IF ClosePnl(p, exit_price) < 0 THEN clock
                           ELSE st.last_loss_time,
        !.cooldown_active = IF ClosePnl(p, exit_price) < 0 THEN TRUE
                            ELSE st.cooldown_active,
        !.loss_clock = IF ClosePnl(p, exit_price) < 0 THEN clock
                       ELSE st.loss_clock]

\* Faulty variant of ProcessOne: a closed position is not removed from
\* open_positions.
ProcessOneKeepsClosed(st, q, bar, timestamp, clock) ==
    LET p1 == update_extremes(q, bar.high, bar.low)
        p2 == [p1 EXCEPT !.bars_held = p1.bars_held + 1]
        exit == ExitWithTimeout(p2, bar, ExitOnBar(p2, bar))
        seen == [position |-> q, bar |-> bar, exit_price |-> exit.price,
                 reason |-> exit.reason]
        closed == IF exit.price # None
                  THEN _close_position(st, p2, exit.price, timestamp, exit.reason, clock)
                  ELSE st
    IN  [closed EXCEPT
            !.balance = IF exit.price # None
                        THEN closed.balance + ClosePnl(p2, exit.price)
                        ELSE closed.balance,
            !.open_positions = Append(closed.open_positions, p2),
            !.processed = Append(closed.processed, seen)]

\* Faulty variant of ProcessOne: the pnl of a closed position is logged but
\* not added to the balance.
ProcessOneUnbooked(st, q, bar, timestamp, clock) ==
    LET p1 == update_extremes(q, bar.high, bar.low)
        p2 == [p1 EXCEPT !.bars_held = p1.bars_held + 1]
        exit == ExitWithTimeout(p2, bar, ExitOnBar(p2, bar))
        seen == [position |-> q, bar |-> bar, exit_price |-> exit.price,
                 reason |-> exit.reason]
    IN  IF exit.price # None
        THEN LET closed == _close_position(st, p2, exit.price, timestamp,
                                           exit.reason, clock)
             IN [closed EXCEPT
                    !.processed = Append(closed.processed, seen)]
        ELSE [st EXCEPT !.open_positions = Append(st.open_positions, p2),
                        !.processed = Append(st.processed, seen)]

\* One iteration of the loop of _process_open_positions, for the position q
\* as it stood in the copied list.
ProcessOne(st, q, bar, timestamp, clock) ==
    LET p1 == update_extremes(q, bar.high, bar.low)
        p2 == [p1 EXCEPT !.bars_held = p1.bars_held + 1]
        exit == ExitWithTimeout(p2, bar, ExitOnBar(p2, bar))
        seen == [position |-> q, bar |-> bar, exit_price |-> exit.price,
                 reason |-> exit.reason]
    IN  IF exit.price # None
        THEN LET closed == _close_position(st, p2, exit.price, timestamp,
                                           exit.reason, clock)
             IN [closed EXCEPT
                    !.balance = closed.balance + ClosePnl(p2, exit.price),
                    !.processed = Append(closed.processed, seen)]
        ELSE [st EXCEPT !.open_positions = Append(st.open_positions, p2),
                        !.processed = Append(st.processed, seen)]

\* _process_open_positions: st.open_positions collects the positions that stay.
RECURSIVE ProcessLoop(_, _, _, _, _)
ProcessLoop(st, todo, bars, timestamp, clock) ==
    IF todo = <<>> THEN st
    ELSE ProcessLoop(ProcessOne(st, Head(todo), bars[Head(todo).symbol], timestamp, clock),
                     Tail(todo), bars, timestamp, clock)

\* _mark_positions: aggregate unrealised pnl at the bar's close ...
RECURSIVE Unrealised(_, _)
Unrealised(ops, bars) ==
    IF ops = <<>> THEN 0
    ELSE mark_to_market(Head(ops), bars[Head(ops).symbol].close)
            + Unrealised(Tail(ops), bars)

\* ... and the PositionState of every open position marked to that close.
MarkedRisk(p, bars) ==
    [p.risk_position EXCEPT
        !.current_price = bars[p.symbol].close,
        !.profit = mark_to_market(p, bars[p.symbol].close)]

MarkOpen(ops, bars) ==
    [i \in 1..Len(ops) |-> [ops[i] EXCEPT !.risk_position = MarkedRisk(ops[i], bars)]]

\* The PositionState objects in RiskState.positions are the same objects the
\* open positions hold: marking a position shows in the list.
MarkListed(ps, ops, bars) ==
    [i \in 1..Len(ps) |->
        IF \E j \in 1..Len(ops) : ops[j].risk_position.id = ps[i].id
        THEN MarkedRisk(ops[CHOOSE j \in 1..Len(ops) :
                                ops[j].risk_position.id = ps[i].id], bars)
        ELSE ps[i]]

\* Faulty variant of _has_open_position: the direction is compared with the
\* signal's enum member instead of its value, which never matches.
_has_open_position_never(ops, symbol, direction) ==
    \E i \in 1..Len(ops) :
        /\ ops[i].symbol = symbol
        /\ ops[i].direction = (IF direction = "buy" THEN "BUY" ELSE "SELL")

_has_open_position(ops, symbol, direction) ==
    \E i \in 1..Len(ops) : ops[i].symbol = symbol /\ ops[i].direction = direction

\* One iteration of the loop of _execute_recommendations.
NewPosition(rec, bars, timestamp, clock, id) ==
    LET entry_price == _apply_costs(bars[rec.symbol].close, rec.signal)
    IN  [symbol |-> rec.symbol, direction |-> rec.signal, entry_time |-> timestamp,
         entry_price |-> entry_price, volume |-> rec.size,
         stop_loss |-> _derive_stop(rec, entry_price),
         take_profit |-> _derive_target(rec, entry_price),
         bars_held |-> 0, mae |-> 0, mfe |-> 0,
         risk_position |->
            [symbol |-> rec.symbol, volume |-> rec.size, entry_price |-> entry_price,
             current_price |-> entry_price, profit |-> 0, timestamp |-> clock,
             id |-> id]]

ExecuteOne(st, rec, bars, timestamp, clock) ==
    IF rec.signal = "hold" THEN st
    ELSE IF rec.symbol \notin DOMAIN bars THEN st
    ELSE IF _has_open_position(st.open_positions, rec.symbol, rec.signal)
    THEN [st EXCEPT !.already_open = st.already_open \cup {<<rec.symbol, rec.signal>>}]
    ELSE
      LET v == validate_trade(st.max_drawdown, st.account_state, st.daily_pnl,
                              st.positions, st.cooldown_active, st.last_loss_time, clock)
          seen == [verdict |-> v,
                   breached |-> Breached(st.max_drawdown, st.account_state,
                                         st.daily_pnl, st.positions,
                                         st.cooldown_active, st.last_loss_time, clock),
                   account |-> st.account_state,
                   loss_clock |-> st.loss_clock, clock |-> clock]
          st1 == [st EXCEPT !.cooldown_active = v.active,
                            !.validations = Append(st.validations, seen)]
          p == NewPosition(rec, bars, timestamp, clock, st.next_id)
      IN  IF ~v.ok THEN st1
          ELSE IF rec.size <= 0 THEN st1
          ELSE [st1 EXCEPT !.positions = Append(st1.positions, p.risk_position),
                           !.open_positions = Append(st1.open_positions, p),
                           !.next_id = st1.next_id + 1]

RECURSIVE _execute_recommendations(_, _, _, _, _)
_execute_recommendations(st, recs, bars, timestamp, clock) ==
    IF recs = <<>> THEN st
    ELSE _execute_recommendations(ExecuteOne(st, Head(recs), bars, timestamp, clock),
                                  Tail(recs), bars, timestamp, clock)

\* _liquidate_all: every open position is closed at its symbol's close.
RECURSIVE LiquidateLoop(_, _, _, _, _)
LiquidateLoop(st, todo, bars, timestamp, clock) ==
    IF todo = <<>> THEN st
    ELSE LET p == Head(todo)
             closed == _close_position(st, p, bars[p.symbol].close, timestamp,
                                       "close", clock)
         IN LiquidateLoop([closed EXCEPT
                                !.balance = closed.balance
                                              + ClosePnl(p, bars[p.symbol].close),
                                !.processed = Append(closed.processed,
                                    [position |-> p, bar |-> bars[p.symbol],
                                     exit_price |-> bars[p.symbol].close,
                                     reason |-> "close"])],
                          Tail(todo), bars, timestamp, clock)

\* Faulty variant of _liquidate_all: only the first open position is closed.
_liquidate_all_first_only(st, bars, timestamp, clock) ==
    [LiquidateLoop(st, <<Head(st.open_positions)>>, bars, timestamp, clock)
        EXCEPT !.open_positions = Tail(st.open_positions)]

_liquidate_all(st, bars, timestamp, clock) ==
    [LiquidateLoop(st, st.open_positions, bars, timestamp, clock)
        EXCEPT !.open_positions = <<>>]

\* _update_account: the snapshot handed to RiskEngine.update_account_state.
_update_account(bal, eq, timestamp) == AccountState(bal, eq, timestamp)

\* Faulty variant of the terminal point: appended whether or not a position
\* was open.
TerminalPointAlways(ops, timestamp, bal) ==
    <<[time |-> timestamp, equity |-> bal]>>

\* run(): the point appended after the loop when positions were still open.
TerminalPoint(ops, timestamp, bal) ==
    IF ops # <<>> THEN <<[time |-> timestamp, equity |-> bal]>> ELSE <<>>

\* Faulty variant of the loop body: the recommendations are executed before
\* the account snapshot is taken.
StepAfterSignalsFirst(step) ==
    IF step = "loop" THEN "signals"
    ELSE IF step = "signals" THEN "mark"
    ELSE IF step = "mark" THEN "append"
    ELSE "loop"

\* run(): the order of the steps of the loop body.
StepAfter(step) ==
    IF step = "loop" THEN "mark"
    ELSE IF step = "mark" THEN "signals"
    ELSE IF step = "signals" THEN "append"
    ELSE "loop"

\* ------------------------------------------------------------ state machine
\* The engine and risk objects, as one record the loops above thread through.
Engine ==
    [balance |-> balance, open_positions |-> open_positions, trade_log |-> trade_log,
     positions |-> positions, daily_pnl |-> daily_pnl,
     last_loss_time |-> last_loss_time, cooldown_active |-> cooldown_active,
     max_drawdown |-> max_drawdown, account_state |-> account_state,
     next_id |-> next_id, processed |-> processed, validations |-> validations,
     already_open |-> already_open, loss_clock |-> loss_clock]

Becomes(st) ==
    /\ balance' = st.balance
    /\ open_positions' = st.open_positions
    /\ trade_log' = st.trade_log
    /\ positions' = st.positions
    /\ daily_pnl' = st.daily_pnl
    /\ last_loss_time' = st.last_loss_time
    /\ cooldown_active' = st.cooldown_active
    /\ next_id' = st.next_id
    /\ processed' = st.processed
    /\ validations' = st.validations
    /\ already_open' = st.already_open
    /\ loss_clock' = st.loss_clock

NoBars == [s \in Symbols |-> [high |-> 0, low |-> 0, close |-> 0]]

\* n snapshots received (counted up to 2), their maximum equity, and whether
\* the latest one fell on another calendar day than the one before it with no
\* trade outcome registered since.
NoSnapshots == [n |-> 0, max |-> 0, rolled |-> FALSE]

\* RiskConfig() of the bot and PositionSizingConfig() of src/risk: the fields
\* sizing reads, percentages out of 100, fractions of equity out of 1000, lots
\* as fractions num / den.
RiskPerTradePct == 2
StopLossPct == 2
RiskPerTradePermille == 5
MaxPositionRiskPermille == 20

DefaultRiskConfig ==
    [risk_per_trade_pct |-> RiskPerTradePct, stop_loss_pct |-> StopLossPct]

DefaultPositionSizingConfig ==
    [risk_per_trade |-> RiskPerTradePermille,
     max_position_risk |-> MaxPositionRiskPermille,
     min_lot |-> [num |-> 1, den |-> 100],
     max_lot |-> [num |-> 50, den |-> 1]]

DefaultConfig ==
    [risk |-> DefaultRiskConfig, position_sizing |-> DefaultPositionSizingConfig]

\* RiskState() of src/risk/state.py: the dataclass defaults, with date.today()
\* as day 0 and the drawdowns as fractions.
NewRiskState ==
    [peak_equity |-> 0, trough_equity |-> 0,
     current_drawdown |-> [num |-> 0, den |-> 1],
     max_recorded_drawdown |-> [num |-> 0, den |-> 1],
     daily_loss |-> 0, daily_start_equity |-> 0, daily_session |-> 0,
     cooldown_until |-> None]

NoCall == [fn |-> "", args |-> <<>>, result |-> <<>>]

\* StrategyTesterEngine.__init__ with a fresh RiskEngine, before run().
Init ==
    /\ max_holding_bars \in HoldingBars
    /\ pc = "loop"
    /\ idx = 0
    /\ day = 0
    /\ current_bars = NoBars
    /\ equity = 0
    /\ already_open = {}
    /\ balance = InitialDeposit
    /\ open_positions = <<>>
    /\ trade_log = <<>>
    /\ equity_points = <<>>
    /\ account_state = NoAccount
    /\ positions = <<>>
    /\ daily_pnl = 0
    /\ max_drawdown = [num |-> 0, den |-> 1]
    /\ peak_equity = 0
    /\ last_loss_time = None
    /\ cooldown_active = FALSE
    /\ now = 0
    /\ next_id = 0
    /\ processed = <<>>
    /\ validations = <<>>
    /\ snapshots = NoSnapshots
    /\ loss_clock = None
    /\ call = NoCall
    /\ enforcer = NewRiskState
    /\ config = DefaultConfig
    /\ history \in UNION {[1..n -> [Symbols -> Bars]] : n \in 0..MaxBars}
    /\ market_snapshot = <<>>
    /\ emergency_stop = NoEmergencyStop
    /\ streamer = NewStreamer

\* Wall-clock time passes while the run is in progress.  The clock is read by
\* _close_position and by _execute_recommendations only, so it is advanced
\* just before the two steps that hold them.
Tick ==
    /\ pc \in {"loop", "signals"}
    /\ now + ClockStep <= MaxClock
    /\ now' = now + ClockStep
    /\ UNCHANGED <<history, market_snapshot, config, enforcer, call,
                   max_holding_bars, pc, idx, day, current_bars, equity,
                   balance, open_positions, trade_log, equity_points,
                   account_state, positions, daily_pnl, max_drawdown,
                   peak_equity, last_loss_time, cooldown_active, next_id,
                   processed, validations, already_open, snapshots,
                   loss_clock,
                   emergency_stop,
                   streamer>>

\* run(), loop head and _process_open_positions for the next bar of the
\* timeline, which holds BarsPerDay bars for each calendar day.
ProcessOpenPositions ==
    /\ pc = "loop"
    /\ idx < Len(history)
    /\ day' = (idx + 1) \div BarsPerDay
    /\ current_bars' = history[idx + 1]
    /\ Becomes(ProcessLoop([Engine EXCEPT !.open_positions = <<>>,
                                          !.processed = <<>>],
                           open_positions, current_bars', idx + 1, now))
    /\ idx' = idx + 1
    /\ snapshots' = [snapshots EXCEPT !.rolled = FALSE]
    /\ pc' = StepAfter("loop")
    /\ UNCHANGED <<history, market_snapshot, config, enforcer, call,
                   max_holding_bars, equity, equity_points, account_state,
                   max_drawdown, peak_equity, now,
                   emergency_stop,
                   streamer>>

\* run(): _mark_positions, equity = balance + unrealised, _update_account.
UpdateAccount ==
    /\ pc = "mark"
    /\ equity' = balance + Unrealised(open_positions, current_bars)
    /\ open_positions' = MarkOpen(open_positions, current_bars)
    /\ positions' = MarkListed(positions, open_positions, current_bars)
    /\ account_state' = _update_account(balance, equity', day)
    /\ peak_equity' = update_account_peak(peak_equity, equity')
    /\ max_drawdown' = update_account_drawdown(peak_equity, max_drawdown, equity')
    /\ daily_pnl' = update_account_daily_pnl(daily_pnl, account_state', account_state)
    /\ snapshots' = [n |-> IF snapshots.n = 0 THEN 1 ELSE 2,
                     max |-> IF snapshots.n = 0 THEN equity'
                             ELSE Max(snapshots.max, equity'),
                     rolled |-> account_state.present /\ account_state.timestamp # day]
    /\ processed' = <<>>
    /\ pc' = StepAfter("mark")
    /\ UNCHANGED <<history, market_snapshot, config, enforcer, call,
                   max_holding_bars, idx, day, current_bars, balance,
                   trade_log, equity_points, last_loss_time, cooldown_active,
                   now, next_id, validations, already_open, loss_clock,
                   emergency_stop,
                   streamer>>

\* Faulty variant of run()'s market_snapshot: the strategies also see the bar
\* after the current one.
MarketSnapshotAhead(hist, n) ==
    SubSeq(hist, 1, IF n < Len(hist) THEN n + 1 ELSE n)

\* run(): market_snapshot, the records [: idx + 1] of the history, where the
\* model's idx counts the bars taken so far.
MarketSnapshot(hist, n) == SubSeq(hist, 1, n)

\* run(): the strategies' recommendations for this bar, _execute_recommendations.
ExecuteRecommendations ==
    /\ pc = "signals"
    /\ \E recs \in RecommendationLists :
          Becomes(_execute_recommendations([Engine EXCEPT !.validations = <<>>,
                                                          !.already_open = {}],
                                           recs, current_bars, idx, now))
    /\ market_snapshot' = MarketSnapshot(history, idx)
    /\ pc' = StepAfter("signals")
    /\ UNCHANGED <<history, config, enforcer, call, max_holding_bars, idx,
                   day, current_bars, equity, equity_points, account_state,
                   max_drawdown, peak_equity, now, snapshots,
                   emergency_stop,
                   streamer>>

\* run(): equity_points.append((timestamp, equity)), end of the loop body.
AppendEquityPoint ==
    /\ pc = "append"
    /\ equity_points' = Append(equity_points, [time |-> idx, equity |-> equity])
    /\ validations' = <<>>
    /\ already_open' = {}
    /\ pc' = StepAfter("append")
    /\ UNCHANGED <<history, market_snapshot, config, enforcer, call,
                   max_holding_bars, idx, day, current_bars, equity, balance,
                   open_positions, trade_log, account_state, positions,
                   daily_pnl, max_drawdown, peak_equity, last_loss_time,
                   cooldown_active, now, next_id, processed, snapshots,
                   loss_clock,
                   emergency_stop,
                   streamer>>

\* run() after the last bar: liquidation of what is still open, and return;
\* summarize_performance raises ValueError on an empty equity curve.
EndOfSeries ==
    /\ pc = "loop"
    /\ idx = Len(history)
    /\ IF open_positions # <<>>
       THEN Becomes(_liquidate_all(Engine, history[Len(history)], idx, now))
       ELSE UNCHANGED <<balance, open_positions, trade_log, positions, daily_pnl,
                        last_loss_time, cooldown_active, next_id, processed,
                        validations, already_open, loss_clock,
                   emergency_stop,
                   streamer>>
    /\ equity_points' = equity_points \o TerminalPoint(open_positions, idx, balance')
    /\ snapshots' = [snapshots EXCEPT !.rolled = FALSE]
    /\ pc' = IF equity_points' = <<>> THEN "error" ELSE "done"
    /\ UNCHANGED <<history, market_snapshot, config, enforcer, call,
                   max_holding_bars, idx, day, current_bars, equity,
                   account_state, max_drawdown, peak_equity, now,
                   emergency_stop,
                   streamer>>

Next ==
    \/ Tick
    \/ ProcessOpenPositions
    \/ UpdateAccount
    \/ ExecuteRecommendations
    \/ AppendEquityPoint
    \/ EndOfSeries

Spec == Init /\ [][Next]_vars

\* --------------------------------------------- the RiskEngine driven directly
\* The account snapshots, trade outcomes and positions a caller hands to a
\* RiskEngine: update_account_state accepts any AccountState, an equity of
\* zero or below included.
RiskBalances == {0, 100}
RiskEquities == {-100, 0, 50, 80, 100}
RiskOutcomes == {-3, 3}
RiskPositions == {[symbol |-> "XAUUSD", volume |-> 1, entry_price |-> 30,
                   current_price |-> 30, profit |-> 0]}

InitRisk ==
    /\ max_holding_bars = 1
    /\ pc = "risk"
    /\ idx = 0
    /\ day = 0
    /\ current_bars = NoBars
    /\ equity = 0
    /\ already_open = {}
    /\ balance = 0
    /\ open_positions = <<>>
    /\ trade_log = <<>>
    /\ equity_points = <<>>
    /\ account_state = NoAccount
    /\ positions = <<>>
    /\ daily_pnl = 0
    /\ max_drawdown = [num |-> 0, den |-> 1]
    /\ peak_equity = 0
    /\ last_loss_time = None
    /\ cooldown_active = FALSE
    /\ now = 0
    /\ next_id = 0
    /\ processed = <<>>
    /\ validations = <<>>
    /\ snapshots = NoSnapshots
    /\ loss_clock = None
    /\ call = NoCall
    /\ enforcer = NewRiskState
    /\ config = DefaultConfig
    /\ history = <<>>
    /\ market_snapshot = <<>>
    /\ emergency_stop = NoEmergencyStop
    /\ streamer = NewStreamer

RiskTick ==
    /\ pc = "risk"
    /\ now + ClockStep <= MaxClock
    /\ now' = now + ClockStep
    /\ validations' = <<>>
    /\ UNCHANGED <<history, market_snapshot, config, enforcer, call,
                   max_holding_bars, pc, idx, day, current_bars, equity,
                   balance, open_positions, trade_log, equity_points,
                   account_state, positions, daily_pnl, max_drawdown,
                   peak_equity, last_loss_time, cooldown_active, next_id,
                   processed, already_open, snapshots, loss_clock,
                   emergency_stop,
                   streamer>>

\* RiskEngine.update_account_state(account_state)
RiskUpdateAccountState ==
    /\ pc = "risk"
    /\ \E bal \in RiskBalances, eq \in RiskEquities, d \in {day, day + 1} :
          /\ d <= MaxDay
          /\ day' = d
          /\ account_state' = AccountState(bal, eq, d)
          /\ peak_equity' = update_account_peak(peak_equity, eq)
          /\ max_drawdown' = update_account_drawdown(peak_equity, max_drawdown, eq)
          /\ daily_pnl' = update_account_daily_pnl(daily_pnl, account_state', account_state)
          /\ snapshots' = [n |-> IF snapshots.n = 0 THEN 1 ELSE 2,
                           max |-> IF snapshots.n = 0 THEN eq
                                   ELSE Max(snapshots.max, eq),
                           rolled |-> account_state.present
                                        /\ account_state.timestamp # d]
    /\ validations' = <<>>
    /\ UNCHANGED <<history, market_snapshot, config, enforcer, call,
                   max_holding_bars, pc, idx, current_bars, equity, balance,
                   open_positions, trade_log, equity_points, positions,
                   last_loss_time, cooldown_active, now, next_id, processed,
                   already_open, loss_clock,
                   emergency_stop,
                   streamer>>

\* RiskState.add_position(position)
RiskAddPosition ==
    /\ pc = "risk"
    /\ Len(positions) < MaxPositions
    /\ \E p \in RiskPositions :
          positions' = Append(positions,
                [symbol |-> p.symbol, volume |-> p.volume,
                 entry_price |-> p.entry_price, current_price |-> p.current_price,
                 profit |-> p.profit, timestamp |-> now, id |-> next_id])
    /\ next_id' = next_id + 1
    /\ validations' = <<>>
    /\ UNCHANGED <<history, market_snapshot, config, enforcer, call,
                   max_holding_bars, pc, idx, day, current_bars, equity,
                   balance, open_positions, trade_log, equity_points,
                   account_state, daily_pnl, max_drawdown, peak_equity,
                   last_loss_time, cooldown_active, now, processed,
                   already_open, snapshots, loss_clock,
                   emergency_stop,
                   streamer>>

\* The trade-outcome callback as _close_position performs it on the risk
\* engine: daily_pnl += pnl, and trigger_cooldown() after a loss.
RiskTradeOutcome ==
    /\ pc = "risk"
    /\ \E pnl \in RiskOutcomes :
          /\ Abs(daily_pnl + pnl) <= MaxDailyPnl
          /\ daily_pnl' = daily_pnl + pnl
          /\ last_loss_time' = IF pnl < 0 THEN now ELSE last_loss_time
          /\ cooldown_active' = IF pnl < 0 THEN TRUE ELSE cooldown_active
          /\ loss_clock' = IF pnl < 0 THEN now ELSE loss_clock
    /\ snapshots' = [snapshots EXCEPT !.rolled = FALSE]
    /\ validations' = <<>>
    /\ UNCHANGED <<history, market_snapshot, config, enforcer, call,
                   max_holding_bars, pc, idx, day, current_bars, equity,
                   balance, open_positions, trade_log, equity_points,
                   account_state, positions, max_drawdown, peak_equity, now,
                   next_id, processed, already_open,
                   emergency_stop,
                   streamer>>

\* RiskEngine.validate_trade(recommendation); validations holds the call
\* until the caller's next step.
RiskValidateTrade ==
    /\ pc = "risk"
    /\ LET v == validate_trade(max_drawdown, account_state, daily_pnl, positions,
                               cooldown_active, last_loss_time, now)
       IN /\ cooldown_active' = v.active
          /\ validations' =
                <<[verdict |-> v,
                   breached |-> Breached(max_drawdown, account_state, daily_pnl,
                                         positions, cooldown_active,
                                         last_loss_time, now),
                   account |-> account_state,
                   loss_clock |-> loss_clock, clock |-> now]>>
    /\ UNCHANGED <<history, market_snapshot, config, enforcer, call,
                   max_holding_bars, pc, idx, day, current_bars, equity,
                   balance, open_positions, trade_log, equity_points,
                   account_state, positions, daily_pnl, max_drawdown,
                   peak_equity, last_loss_time, now, next_id, processed,
                   already_open, snapshots, loss_clock,
                   emergency_stop,
                   streamer>>

\* RiskLimits.check_cooldown() called on its own; validations holds the call
\* until the caller's next step.
RiskCheckCooldown ==
    /\ pc = "risk"
    /\ LET c == check_cooldown(cooldown_active, last_loss_time, now)
       IN /\ cooldown_active' = c.active
          /\ validations' =
                <<[verdict |-> Verdict(c.ok, IF c.ok THEN "" ELSE "cooldown",
                                       c.reason, <<"cooldown">>, c.active),
                   breached |-> IF c.ok THEN {} ELSE {"cooldown"},
                   account |-> account_state,
                   loss_clock |-> loss_clock, clock |-> now]>>
    /\ UNCHANGED <<history, market_snapshot, config, enforcer, call,
                   max_holding_bars, pc, idx, day, current_bars, equity,
                   balance, open_positions, trade_log, equity_points,
                   account_state, positions, daily_pnl, max_drawdown,
                   peak_equity, last_loss_time, now, next_id, processed,
                   already_open, snapshots, loss_clock,
                   emergency_stop,
                   streamer>>

NextRisk ==
    \/ RiskTick
    \/ RiskUpdateAccountState
    \/ RiskAddPosition
    \/ RiskTradeOutcome
    \/ RiskValidateTrade
    \/ RiskCheckCooldown

SpecRisk == InitRisk /\ [][NextRisk]_vars

\* ---------------------------------------------------------- position sizing
\* Lots are fractions num / den with den > 0, compared by cross-multiplication.
\* For calculate_position_size prices are counted in points (point_value, the
\* 0.0001 of a non-JPY symbol), so that a price times the contract size of
\* 100000 is ten times its points; for PositionSizer they are price units.
Frac(n, d) == [num |-> n, den |-> d]

FracLess(a, b) == a.num * b.den < b.num * a.den

\* Python's min(a, b) and max(a, b): the first argument unless the second is
\* strictly smaller (larger).
FracMin(a, b) == IF FracLess(b, a) THEN b ELSE a

FracMax(a, b) == IF FracLess(a, b) THEN b ELSE a

Returned(lots) == [raised |-> "", lots |-> lots]

Raised(error) == [raised |-> error, lots |-> Frac(0, 1)]

\* calculate_position_size (src/risk/position_sizing.py of the bot).
calculate_position_size(account_balance, entry_price, stop_loss_price, risk_config) ==
    LET risk_amount == (account_balance * risk_config.risk_per_trade_pct) \div 100
        price_diff == Abs(entry_price - stop_loss_price)
    IN  IF price_diff = 0 THEN Returned(Frac(1, 100))
        ELSE IF entry_price = 0 THEN Raised("ZeroDivisionError")
        ELSE LET position_size_lots == Frac(risk_amount, 10 * price_diff)
                 max_position_lots ==
                     IF entry_price > 0
                     THEN Frac((account_balance * 2) \div 100, 10 * entry_price)
                     ELSE Frac(-((account_balance * 2) \div 100), -(10 * entry_price))
             IN Returned(FracMax(Frac(1, 100),
                                 FracMin(position_size_lots,
                                         FracMin(max_position_lots, Frac(2, 1)))))

\* RiskEngine.calculate_position_size: "stop_loss or default" takes the
\* default for a stop of None and for a stop of 0.
RiskEngine_calculate_position_size(risk_config, acct, entry_price, stop_loss) ==
    IF ~acct.present THEN Returned(Frac(1, 100))
    ELSE LET stop == IF stop_loss # None /\ stop_loss # 0 THEN stop_loss
                     ELSE (entry_price * (100 - risk_config.stop_loss_pct)) \div 100
             inner == calculate_position_size(acct.equity, entry_price, stop,
                                              risk_config)
         IN IF inner.raised # "" THEN inner
            ELSE Returned(FracMax(Frac(1, 100), FracMin(inner.lots, Frac(10, 1))))

\* PositionSizingConfig.lot_step is one hundredth of a lot.
LotStepsPerLot == 100

\* PositionSizingConfig.validate: the exception it raises ("" for none).
PositionSizingConfig_validate(cfg) ==
    IF ~(0 < cfg.risk_per_trade /\ cfg.risk_per_trade < 1000) THEN "ValueError"
    ELSE IF ~(0 < cfg.max_position_risk /\ cfg.max_position_risk <= 1000)
    THEN "ValueError"
    ELSE IF cfg.min_lot.num <= 0 \/ cfg.max_lot.num <= 0 THEN "ValueError"
    ELSE IF FracLess(cfg.max_lot, cfg.min_lot) THEN "ValueError"
    ELSE ""

\* round(x) of a non-negative fraction: to the nearest integer, ties to even.
RoundHalfEven(x) ==
    LET q == x.num \div x.den
        r == x.num % x.den
    IN  IF 2 * r < x.den THEN q
        ELSE IF 2 * r > x.den THEN q + 1
        ELSE IF q % 2 = 0 THEN q ELSE q + 1

\* PositionSizer._normalize_lot with allow_fractional.
_normalize_lot(cfg, lots) ==
    LET clamped == FracMin(FracMax(lots, cfg.min_lot), cfg.max_lot)
    IN  Frac(RoundHalfEven(Frac(clamped.num * LotStepsPerLot, clamped.den)),
             LotStepsPerLot)

\* PositionSizer.size_from_stop
size_from_stop(cfg, equity_, entry_price, stop_price, pip_value) ==
    IF entry_price <= 0 \/ stop_price <= 0 THEN Raised("PositionSizingError")
    ELSE IF pip_value <= 0 THEN Raised("PositionSizingError")
    ELSE IF Abs(entry_price - stop_price) <= 0 THEN Raised("PositionSizingError")
    ELSE LET risk_fraction == IF cfg.max_position_risk < cfg.risk_per_trade
                              THEN cfg.max_position_risk ELSE cfg.risk_per_trade
             raw_lots == Frac(equity_ * risk_fraction,
                              1000 * Abs(entry_price - stop_price) * pip_value)
             lots == _normalize_lot(cfg, raw_lots)
         IN IF lots.num <= 0 THEN Raised("PositionSizingError")
            ELSE Returned(lots)

\* The arguments the sizing functions are called with.
SizingBalances == {-1000, 0, 1000, 1000000}
SizingPrices == {0, 50, 100}
SizingStops == {0, 50, 98, 100}
PipValues == {0, 10}

\* A RiskEngine and a PositionSizer just constructed, nothing traded yet.
InitSizing ==
    /\ max_holding_bars = 1
    /\ pc = "sizing"
    /\ idx = 0
    /\ day = 0
    /\ current_bars = NoBars
    /\ equity = 0
    /\ already_open = {}
    /\ balance = 0
    /\ open_positions = <<>>
    /\ trade_log = <<>>
    /\ equity_points = <<>>
    /\ account_state = NoAccount
    /\ positions = <<>>
    /\ daily_pnl = 0
    /\ max_drawdown = [num |-> 0, den |-> 1]
    /\ peak_equity = 0
    /\ last_loss_time = None
    /\ cooldown_active = FALSE
    /\ now = 0
    /\ next_id = 0
    /\ processed = <<>>
    /\ validations = <<>>
    /\ snapshots = NoSnapshots
    /\ loss_clock = None
    /\ call = NoCall
    /\ enforcer = NewRiskState
    /\ config = DefaultConfig
    /\ history = <<>>
    /\ market_snapshot = <<>>
    /\ emergency_stop = NoEmergencyStop
    /\ streamer = NewStreamer

\* The arguments of the direct calls of calculate_position_size: the grid of
\* balances, entries and stops, and a small account on a symbol priced at
\* 2000.0000 with its stop one hundred points below.
SizingRequests ==
    (SizingBalances \X SizingPrices \X SizingStops)
      \cup {<<100, 20000000, 19999900>>}

CallCalculatePositionSize ==
    /\ pc = "sizing"
    /\ \E req \in SizingRequests :
          call' = [fn |-> "calculate_position_size", args |-> req,
                   result |-> calculate_position_size(req[1], req[2], req[3],
                                                      config.risk)]
    /\ UNCHANGED <<max_holding_bars, pc, idx, day, current_bars, equity,
                   balance, open_positions, trade_log, equity_points,
                   account_state, positions, daily_pnl, max_drawdown,
                   peak_equity, last_loss_time, cooldown_active, now, next_id,
                   processed, validations, already_open, snapshots,
                   loss_clock, enforcer, config, history, market_snapshot,
                   emergency_stop,
                   streamer>>

\* update_account_state of the RiskEngine, so that it can size a trade.
SizingUpdateAccountState ==
    /\ pc = "sizing"
    /\ \E b \in SizingBalances :
          /\ account_state' = AccountState(b, b, day)
          /\ peak_equity' = update_account_peak(peak_equity, b)
          /\ max_drawdown' = update_account_drawdown(peak_equity, max_drawdown, b)
          /\ daily_pnl' = update_account_daily_pnl(daily_pnl, account_state', account_state)
          /\ snapshots' = [n |-> IF snapshots.n = 0 THEN 1 ELSE 2,
                           max |-> IF snapshots.n = 0 THEN b
                                   ELSE Max(snapshots.max, b),
                           rolled |-> FALSE]
    /\ UNCHANGED <<max_holding_bars, pc, idx, day, current_bars, equity,
                   balance, open_positions, trade_log, equity_points,
                   positions, last_loss_time, cooldown_active, now, next_id,
                   processed, validations, already_open, loss_clock, call,
                   enforcer, config, history, market_snapshot,
                   emergency_stop,
                   streamer>>

CallRiskEngineCalculatePositionSize ==
    /\ pc = "sizing"
    /\ \E e \in SizingPrices, sl \in SizingStops \cup {None} :
          call' = [fn |-> "RiskEngine.calculate_position_size",
                   args |-> <<account_state, e, sl>>,
                   result |-> RiskEngine_calculate_position_size(
                                  config.risk, account_state, e, sl)]
    /\ UNCHANGED <<max_holding_bars, pc, idx, day, current_bars, equity,
                   balance, open_positions, trade_log, equity_points,
                   account_state, positions, daily_pnl, max_drawdown,
                   peak_equity, last_loss_time, cooldown_active, now, next_id,
                   processed, validations, already_open, snapshots,
                   loss_clock, enforcer, config, history, market_snapshot,
                   emergency_stop,
                   streamer>>

CallSizeFromStop ==
    /\ pc = "sizing"
    /\ \E b \in SizingBalances, e \in SizingPrices, sl \in SizingStops,
          pv \in PipValues :
          call' = [fn |-> "size_from_stop", args |-> <<b, e, sl, pv>>,
                   result |-> size_from_stop(config.position_sizing, b, e, sl, pv)]
    /\ UNCHANGED <<max_holding_bars, pc, idx, day, current_bars, equity,
                   balance, open_positions, trade_log, equity_points,
                   account_state, positions, daily_pnl, max_drawdown,
                   peak_equity, last_loss_time, cooldown_active, now, next_id,
                   processed, validations, already_open, snapshots,
                   loss_clock, enforcer, config, history, market_snapshot,
                   emergency_stop,
                   streamer>>

\* The settings a RiskEngine or a PositionSizer is constructed with.
RiskPerTradePcts == {-2, 0, 2}

PositionSizingConfigs ==
    {[DefaultPositionSizingConfig EXCEPT !.risk_per_trade = r, !.min_lot = m] :
        r \in {0, 5}, m \in {[num |-> 1, den |-> 100], [num |-> 100, den |-> 1]}}

\* RiskEngine(config): the configuration is stored as it is, with a fresh
\* RiskState and fresh RiskLimits.
ConstructRiskEngine ==
    /\ pc = "sizing"
    /\ \E pct \in RiskPerTradePcts :
          /\ config' = [config EXCEPT !.risk.risk_per_trade_pct = pct]
          /\ call' = [fn |-> "RiskEngine.__init__", args |-> <<config'.risk>>,
                      result |-> [raised |-> ""]]
    /\ account_state' = NoAccount
    /\ positions' = <<>>
    /\ daily_pnl' = 0
    /\ max_drawdown' = [num |-> 0, den |-> 1]
    /\ peak_equity' = 0
    /\ last_loss_time' = None
    /\ cooldown_active' = FALSE
    /\ snapshots' = NoSnapshots
    /\ UNCHANGED <<max_holding_bars, pc, idx, day, current_bars, equity,
                   balance, open_positions, trade_log, equity_points, now,
                   next_id, processed, validations, already_open, loss_clock,
                   enforcer, history, market_snapshot,
                   emergency_stop,
                   streamer>>

\* PositionSizer(config): config.validate() first, so a sizer exists only for
\* a configuration that passes it.
ConstructPositionSizer ==
    /\ pc = "sizing"
    /\ \E cfg \in PositionSizingConfigs :
          /\ call' = [fn |-> "PositionSizer.__init__", args |-> <<cfg>>,
                      result |-> [raised |-> PositionSizingConfig_validate(cfg)]]
          /\ config' = IF PositionSizingConfig_validate(cfg) = ""
                       THEN [config EXCEPT !.position_sizing = cfg]
                       ELSE config
    /\ UNCHANGED <<max_holding_bars, pc, idx, day, current_bars, equity,
                   balance, open_positions, trade_log, equity_points,
                   account_state, positions, daily_pnl, max_drawdown,
                   peak_equity, last_loss_time, cooldown_active, now, next_id,
                   processed, validations, already_open, snapshots,
                   loss_clock, enforcer, history, market_snapshot,
                   emergency_stop,
                   streamer>>

NextSizing ==
    \/ ConstructRiskEngine
    \/ ConstructPositionSizer
    \/ SizingUpdateAccountState
    \/ CallCalculatePositionSize
    \/ CallRiskEngineCalculatePositionSize
    \/ CallSizeFromStop

SpecSizing == InitSizing /\ [][NextSizing]_vars

\* ------------------------------------------------------- RiskLimitEnforcer
\* The second risk layer (src/risk): RiskLimitEnforcer over the RiskState of
\* src/risk/state.py.  Its clock is datetime.utcnow(), read from now.
EnforcerMaxDrawdownPct == 20
CoolingOffMinutes == 60

\* RiskState._reset_daily_if_needed (equity None is passed by register_pnl)
_reset_daily_if_needed(st, session, eq) ==
    IF session # st.daily_session
    THEN [st EXCEPT !.daily_session = session,
                    !.daily_loss = 0,
                    !.daily_start_equity = IF eq # None THEN eq ELSE @]
    ELSE st

\* RiskState.update_equity
update_equity(st, eq, session) ==
    LET s1 == IF st.peak_equity = 0
              THEN [st EXCEPT !.peak_equity = eq, !.trough_equity = eq,
                              !.daily_start_equity = eq]
              ELSE st
        peak == IF eq > s1.peak_equity THEN eq ELSE s1.peak_equity
        trough == IF eq < s1.trough_equity THEN eq ELSE s1.trough_equity
        drawdown == IF peak > 0 THEN Frac(peak - eq, peak) ELSE Frac(0, 1)
        current == FracMax(drawdown, Frac(0, 1))
        s2 == [s1 EXCEPT !.peak_equity = peak, !.trough_equity = trough,
                         !.current_drawdown = current,
                         !.max_recorded_drawdown = FracMax(@, current)]
    IN  _reset_daily_if_needed(s2, session, eq)

\* RiskState.apply_cooldown
apply_cooldown(st, minutes, clock) ==
    [st EXCEPT !.cooldown_until = clock + minutes]

\* RiskState.in_cooldown: what it returns and the state it leaves.
in_cooldown(st, clock) ==
    IF st.cooldown_until = None THEN [result |-> FALSE, state |-> st]
    ELSE IF clock >= st.cooldown_until
    THEN [result |-> FALSE, state |-> [st EXCEPT !.cooldown_until = None]]
    ELSE [result |-> TRUE, state |-> st]

\* RiskLimitEnforcer._check_cooldown: the exception it raises ("" for none)
\* and the state it leaves.
_check_cooldown(st, clock) ==
    [raised |-> IF in_cooldown(st, clock).result THEN "DrawdownLimitError" ELSE "",
     state |-> in_cooldown(st, clock).state]

\* The comparison of RiskLimitEnforcer._check_drawdown.
DrawdownLimitReached(dd) == dd.num * 100 >= EnforcerMaxDrawdownPct * dd.den

\* RiskLimitEnforcer._check_drawdown
_check_drawdown(st, eq, session, clock) ==
    LET s1 == update_equity(st, eq, session)
    IN  IF DrawdownLimitReached(s1.current_drawdown)
        THEN [raised |-> "DrawdownLimitError",
              state |-> apply_cooldown(s1, CoolingOffMinutes, clock)]
        ELSE [raised |-> "", state |-> s1]

\* The equity of the account snapshots handed to the enforcer.
EnforcerEquities == {0, 79, 80, 81, 100}

InitEnforcer ==
    /\ max_holding_bars = 1
    /\ pc = "enforcer"
    /\ idx = 0
    /\ day = 0
    /\ current_bars = NoBars
    /\ equity = 0
    /\ already_open = {}
    /\ balance = 0
    /\ open_positions = <<>>
    /\ trade_log = <<>>
    /\ equity_points = <<>>
    /\ account_state = NoAccount
    /\ positions = <<>>
    /\ daily_pnl = 0
    /\ max_drawdown = [num |-> 0, den |-> 1]
    /\ peak_equity = 0
    /\ last_loss_time = None
    /\ cooldown_active = FALSE
    /\ now = 0
    /\ next_id = 0
    /\ processed = <<>>
    /\ validations = <<>>
    /\ snapshots = NoSnapshots
    /\ loss_clock = None
    /\ call = NoCall
    /\ enforcer = NewRiskState
    /\ config = DefaultConfig
    /\ history = <<>>
    /\ market_snapshot = <<>>
    /\ emergency_stop = NoEmergencyStop
    /\ streamer = NewStreamer

EnforcerTick ==
    /\ pc = "enforcer"
    /\ now + ClockStep <= MaxClock
    /\ now' = now + ClockStep
    /\ UNCHANGED <<max_holding_bars, pc, idx, day, current_bars, equity,
                   balance, open_positions, trade_log, equity_points,
                   account_state, positions, daily_pnl, max_drawdown,
                   peak_equity, last_loss_time, cooldown_active, next_id,
                   processed, validations, already_open, snapshots,
                   loss_clock, call, enforcer, config, history,
                   market_snapshot,
                   emergency_stop,
                   streamer>>

EnforcerCheckCooldown ==
    /\ pc = "enforcer"
    /\ call' = [fn |-> "_check_cooldown", args |-> <<now>>,
                result |-> [raised |-> _check_cooldown(enforcer, now).raised]]
    /\ enforcer' = _check_cooldown(enforcer, now).state
    /\ UNCHANGED <<max_holding_bars, pc, idx, day, current_bars, equity,
                   balance, open_positions, trade_log, equity_points,
                   account_state, positions, daily_pnl, max_drawdown,
                   peak_equity, last_loss_time, cooldown_active, now, next_id,
                   processed, validations, already_open, snapshots,
                   loss_clock, config, history, market_snapshot,
                   emergency_stop,
                   streamer>>

EnforcerCheckDrawdown ==
    /\ pc = "enforcer"
    /\ \E eq \in EnforcerEquities, session \in 0..MaxDay :
          /\ call' = [fn |-> "_check_drawdown", args |-> <<eq, session, now>>,
                      result |-> [raised |->
                          _check_drawdown(enforcer, eq, session, now).raised]]
          /\ enforcer' = _check_drawdown(enforcer, eq, session, now).state
    /\ UNCHANGED <<max_holding_bars, pc, idx, day, current_bars, equity,
                   balance, open_positions, trade_log, equity_points,
                   account_state, positions, daily_pnl, max_drawdown,
                   peak_equity, last_loss_time, cooldown_active, now, next_id,
                   processed, validations, already_open, snapshots,
                   loss_clock, config, history, market_snapshot,
                   emergency_stop,
                   streamer>>

NextEnforcer ==
    \/ EnforcerTick
    \/ EnforcerCheckCooldown
    \/ EnforcerCheckDrawdown

SpecEnforcer == InitEnforcer /\ [][NextEnforcer]_vars

\* ------------------------------------------------------ walk-forward plan
\* WalkForwardPlanner (backtesting/walkforward.py).  Datetimes are counted in
\* days from 2024-01-01, timedeltas in days.
DaysInMonth2024 == <<31, 29, 31, 30, 31, 30, 31, 31, 30, 31, 30, 31>>

RECURSIVE DaysBeforeMonth(_)
DaysBeforeMonth(month) ==
    IF month = 1 THEN 0
    ELSE DaysBeforeMonth(month - 1) + DaysInMonth2024[month - 1]

\* datetime(2024, month, day) - datetime(2024, 1, 1), in days.
Date2024(month, day_of_month) == DaysBeforeMonth(month) + (day_of_month - 1)

WalkForwardWindow(cursor, delta_in, delta_out) ==
    [in_start |-> cursor, in_end |-> cursor + delta_in,
     out_start |-> cursor + delta_in, out_end |-> cursor + delta_in + delta_out]

\* The while loop of WalkForwardPlanner.generate.
RECURSIVE GenerateFrom(_, _, _, _)
GenerateFrom(cursor, delta_in, delta_out, end) ==
    IF cursor + delta_in + delta_out <= end
    THEN <<WalkForwardWindow(cursor, delta_in, delta_out)>>
            \o GenerateFrom(cursor + delta_out, delta_in, delta_out, end)
    ELSE <<>>

\* Faulty variant of WalkForwardPlanner.generate: an empty plan is returned
\* instead of raised.
generate_or_empty(in_sample_days, out_sample_days, start, end) ==
    [raised |-> "",
     windows |-> GenerateFrom(start, in_sample_days, out_sample_days, end)]

\* WalkForwardPlanner.generate: the exception it raises ("" for none) and the
\* windows it returns.
generate(in_sample_days, out_sample_days, start, end) ==
    LET windows == GenerateFrom(start, in_sample_days, out_sample_days, end)
    IN  IF windows = <<>> THEN [raised |-> "ValueError", windows |-> <<>>]
        ELSE [raised |-> "", windows |-> windows]

\* WalkForwardPlanner(in_sample_days, out_sample_days).generate(start, end):
\* the constructor turns non-positive sample sizes away.
PlanWalkForward(in_sample_days, out_sample_days, start, end) ==
    IF in_sample_days <= 0 \/ out_sample_days <= 0
    THEN [raised |-> "ValueError", windows |-> <<>>]
    ELSE generate(in_sample_days, out_sample_days, start, end)

\* The plans asked for: all small ones, and the one from 2024-01-01 to
\* 2024-04-01 with 60 days in sample and 30 days out of sample.
PlanRequests ==
    {<<i, o, s, e>> : i \in 0..MaxSampleDays, o \in 0..MaxSampleDays,
                      s \in {0, 1}, e \in 0..MaxPlanEnd}
        \cup {<<60, 30, Date2024(1, 1), Date2024(4, 1)>>}

InitPlanner ==
    /\ max_holding_bars = 1
    /\ pc = "plan"
    /\ idx = 0
    /\ day = 0
    /\ current_bars = NoBars
    /\ equity = 0
    /\ already_open = {}
    /\ balance = 0
    /\ open_positions = <<>>
    /\ trade_log = <<>>
    /\ equity_points = <<>>
    /\ account_state = NoAccount
    /\ positions = <<>>
    /\ daily_pnl = 0
    /\ max_drawdown = [num |-> 0, den |-> 1]
    /\ peak_equity = 0
    /\ last_loss_time = None
    /\ cooldown_active = FALSE
    /\ now = 0
    /\ next_id = 0
    /\ processed = <<>>
    /\ validations = <<>>
    /\ snapshots = NoSnapshots
    /\ loss_clock = None
    /\ call = NoCall
    /\ enforcer = NewRiskState
    /\ config = DefaultConfig
    /\ history = <<>>
    /\ market_snapshot = <<>>
    /\ emergency_stop = NoEmergencyStop
    /\ streamer = NewStreamer

CallGenerate ==
    /\ pc = "plan"
    /\ \E r \in PlanRequests :
          call' = [fn |-> "generate", args |-> r,
                   result |-> PlanWalkForward(r[1], r[2], r[3], r[4])]
    /\ UNCHANGED <<max_holding_bars, pc, idx, day, current_bars, equity,
                   balance, open_positions, trade_log, equity_points,
                   account_state, positions, daily_pnl, max_drawdown,
                   peak_equity, last_loss_time, cooldown_active, now, next_id,
                   processed, validations, already_open, snapshots,
                   loss_clock, enforcer, config, history, market_snapshot,
                   emergency_stop,
                   streamer>>

NextPlanner == CallGenerate

SpecPlanner == InitPlanner /\ [][NextPlanner]_vars

\* --------------------------------------------------------------- optimizer
\* StrategyOptimizer and WalkForwardAnalyzer (src/backtesting).  A backtest
\* is seen through its outcome only: the score it yields, or None when
\* engine.run or the metric lookup raises.
Min(a, b) == IF a < b THEN a ELSE b

\* itertools.product of two ranges, zipped with the keys of the grid: the last
\* range varies fastest.
Product(fast, slow) ==
    [k \in 1..(Len(fast) * Len(slow)) |->
        [fast_period |-> fast[((k - 1) \div Len(slow)) + 1],
         slow_period |-> slow[((k - 1) % Len(slow)) + 1]]]

\* The loop of grid_search over the combos from position k on: the results
\* appended, the number of _evaluate calls made, and the exception that ended
\* the loop ("" for none).
RECURSIVE EvaluateFrom(_, _, _, _)
EvaluateFrom(combos, outcomes, k, results) ==
    IF k > Len(combos) THEN [raised |-> "", results |-> results, evaluated |-> k - 1]
    ELSE IF outcomes[k] = None
    THEN [raised |-> "ValueError", results |-> results, evaluated |-> k]
    ELSE EvaluateFrom(combos, outcomes, k + 1,
                      Append(results, [params |-> combos[k], score |-> outcomes[k]]))

\* The key order of sorted(..., reverse=maximize): r goes before x.
Before(r, x, maximize) ==
    IF maximize THEN r.score > x.score ELSE r.score < x.score

\* Faulty variant of the stable sort's insertion: a result also goes before
\* the results that score the same.
InsertBeforeEqual(sorted, r, maximize) ==
    LET ahead == {i \in 1..Len(sorted) : \A j \in 1..i : Before(sorted[j], r, maximize)}
        n == Cardinality(ahead)
    IN  SubSeq(sorted, 1, n) \o <<r>> \o SubSeq(sorted, n + 1, Len(sorted))

\* One insertion of the stable sort: r goes behind every result that does not
\* come strictly after it.
InsertStable(sorted, r, maximize) ==
    LET ahead == {i \in 1..Len(sorted) : \A j \in 1..i : ~Before(r, sorted[j], maximize)}
        n == Cardinality(ahead)
    IN  SubSeq(sorted, 1, n) \o <<r>> \o SubSeq(sorted, n + 1, Len(sorted))

\* StrategyOptimizer._sorted: sorted() is stable, also with reverse=True.
RECURSIVE _sorted(_, _)
_sorted(results, maximize) ==
    IF results = <<>> THEN <<>>
    ELSE InsertStable(_sorted(SubSeq(results, 1, Len(results) - 1), maximize),
                      results[Len(results)], maximize)

\* StrategyOptimizer.grid_search
grid_search(fast, slow, outcomes, maximize, top_n) ==
    LET run == EvaluateFrom(Product(fast, slow), outcomes, 1, <<>>)
    IN  IF run.raised # ""
        THEN [raised |-> run.raised, leaderboard |-> <<>>, evaluated |-> run.evaluated]
        ELSE [raised |-> "",
              leaderboard |-> SubSeq(_sorted(run.results, maximize), 1,
                                     Min(top_n, Len(run.results))),
              evaluated |-> run.evaluated]

\* Faulty variant of WindowStarts: the range ends one bar early, as if the
\* stop were len(data) - train_size - test_size.
RECURSIVE WindowStartsShort(_, _, _)
WindowStartsShort(start, stop, step) ==
    IF start >= stop - 1 THEN <<>>
    ELSE <<start>> \o WindowStartsShort(start + step, stop, step)

\* range(0, len(data) - train_size - test_size + 1, step)
RECURSIVE WindowStarts(_, _, _)
WindowStarts(start, stop, step) ==
    IF start >= stop THEN <<>>
    ELSE <<start>> \o WindowStarts(start + step, stop, step)

\* The loop of WalkForwardAnalyzer.run from window k on.
\* train_range and test_range are the first and last bar of data.iloc[a : b].
RECURSIVE SlicesFrom(_, _, _, _, _, _)
SlicesFrom(starts, outcomes, k, slices, train_size, test_size) ==
    IF k > Len(starts) THEN [raised |-> "", slices |-> slices, evaluated |-> k - 1]
    ELSE IF outcomes[k] = None
    THEN [raised |-> "ValueError", slices |-> <<>>, evaluated |-> k]
    ELSE SlicesFrom(starts, outcomes, k + 1,
                    Append(slices,
                           [index |-> k - 1, start |-> starts[k],
                            train_range |->
                                <<starts[k], starts[k] + train_size - 1>>,
                            test_range |->
                                <<starts[k] + train_size,
                                  starts[k] + train_size + test_size - 1>>,
                            optimization_score |-> outcomes[k]]),
                    train_size, test_size)

\* WalkForwardAnalyzer.run: "step or test_size" takes the test size for a step
\* of None or 0; an exception of a window ends the call, and the slices of
\* the windows before it go with it.
WalkForwardAnalyzer_run(data_len, train_size, test_size, step, outcomes) ==
    IF data_len - train_size - test_size < 0
    THEN [raised |-> "ValueError", slices |-> <<>>, evaluated |-> 0]
    ELSE SlicesFrom(WindowStarts(0, data_len - train_size - test_size + 1,
                                 IF step = None \/ step = 0 THEN test_size ELSE step),
                    outcomes, 1, <<>>, train_size, test_size)

\* The ranges of the grid, and what one backtest can yield.
FastRanges == {<<5>>, <<5, 10>>}
SlowRanges == {<<20>>, <<20, 30>>}
Scores == {1, 2}
EvaluationOutcomes == Scores \cup {None}

InitOptimizer ==
    /\ max_holding_bars = 1
    /\ pc = "optimize"
    /\ idx = 0
    /\ day = 0
    /\ current_bars = NoBars
    /\ equity = 0
    /\ already_open = {}
    /\ balance = 0
    /\ open_positions = <<>>
    /\ trade_log = <<>>
    /\ equity_points = <<>>
    /\ account_state = NoAccount
    /\ positions = <<>>
    /\ daily_pnl = 0
    /\ max_drawdown = [num |-> 0, den |-> 1]
    /\ peak_equity = 0
    /\ last_loss_time = None
    /\ cooldown_active = FALSE
    /\ now = 0
    /\ next_id = 0
    /\ processed = <<>>
    /\ validations = <<>>
    /\ snapshots = NoSnapshots
    /\ loss_clock = None
    /\ call = NoCall
    /\ enforcer = NewRiskState
    /\ config = DefaultConfig
    /\ history = <<>>
    /\ market_snapshot = <<>>
    /\ emergency_stop = NoEmergencyStop
    /\ streamer = NewStreamer

CallGridSearch ==
    /\ pc = "optimize"
    /\ \E fast \in FastRanges, slow \in SlowRanges, maximize \in BOOLEAN,
          top_n \in 1..MaxTopN :
          \E outcomes \in [1..(Len(fast) * Len(slow)) -> EvaluationOutcomes] :
             call' = [fn |-> "grid_search",
                      args |-> <<fast, slow, outcomes, maximize, top_n>>,
                      result |-> grid_search(fast, slow, outcomes, maximize, top_n)]
    /\ UNCHANGED <<max_holding_bars, pc, idx, day, current_bars, equity,
                   balance, open_positions, trade_log, equity_points,
                   account_state, positions, daily_pnl, max_drawdown,
                   peak_equity, last_loss_time, cooldown_active, now, next_id,
                   processed, validations, already_open, snapshots,
                   loss_clock, enforcer, config, history, market_snapshot,
                   emergency_stop,
                   streamer>>

InitWalkForward ==
    /\ max_holding_bars = 1
    /\ pc = "walkforward"
    /\ idx = 0
    /\ day = 0
    /\ current_bars = NoBars
    /\ equity = 0
    /\ already_open = {}
    /\ balance = 0
    /\ open_positions = <<>>
    /\ trade_log = <<>>
    /\ equity_points = <<>>
    /\ account_state = NoAccount
    /\ positions = <<>>
    /\ daily_pnl = 0
    /\ max_drawdown = [num |-> 0, den |-> 1]
    /\ peak_equity = 0
    /\ last_loss_time = None
    /\ cooldown_active = FALSE
    /\ now = 0
    /\ next_id = 0
    /\ processed = <<>>
    /\ validations = <<>>
    /\ snapshots = NoSnapshots
    /\ loss_clock = None
    /\ call = NoCall
    /\ enforcer = NewRiskState
    /\ config = DefaultConfig
    /\ history = <<>>
    /\ market_snapshot = <<>>
    /\ emergency_stop = NoEmergencyStop
    /\ streamer = NewStreamer

CallWalkForwardRun ==
    /\ pc = "walkforward"
    /\ \E data_len \in 0..MaxData, train_size \in 1..2, test_size \in 1..2,
          step \in {None, 1, 2} :
          \E outcomes \in [1..(data_len - 1) -> EvaluationOutcomes] :
             call' = [fn |-> "WalkForwardAnalyzer.run",
                      args |-> <<data_len, train_size, test_size, step, outcomes>>,
                      result |-> WalkForwardAnalyzer_run(data_len, train_size,
                                                         test_size, step, outcomes)]
    /\ UNCHANGED <<max_holding_bars, pc, idx, day, current_bars, equity,
                   balance, open_positions, trade_log, equity_points,
                   account_state, positions, daily_pnl, max_drawdown,
                   peak_equity, last_loss_time, cooldown_active, now, next_id,
                   processed, validations, already_open, snapshots,
                   loss_clock, enforcer, config, history, market_snapshot,
                   emergency_stop,
                   streamer>>

NextOptimizer == CallGridSearch

SpecOptimizer == InitOptimizer /\ [][NextOptimizer]_vars

NextWalkForward == CallWalkForwardRun

SpecWalkForward == InitWalkForward /\ [][NextWalkForward]_vars

\* ------------------------------------------------------------ profit factor
\* The profit factor of the two performance reports, from the pnl of the
\* trades: a quotient num / den, or the float infinity.
Finite(n, d) == [inf |-> FALSE, num |-> n, den |-> d]

Infinite == [inf |-> TRUE, num |-> 0, den |-> 1]

\* sum(t.pnl for t in trade_list if t.pnl > 0)
RECURSIVE GrossProfit(_)
GrossProfit(pnls) ==
    IF pnls = <<>> THEN 0
    ELSE (IF pnls[1] > 0 THEN pnls[1] ELSE 0)
         + GrossProfit(SubSeq(pnls, 2, Len(pnls)))

\* sum(t.pnl for t in trade_list if t.pnl < 0)
RECURSIVE GrossLoss(_)
GrossLoss(pnls) ==
    IF pnls = <<>> THEN 0
    ELSE (IF pnls[1] < 0 THEN pnls[1] ELSE 0)
         + GrossLoss(SubSeq(pnls, 2, Len(pnls)))

\* summarize_performance (backtesting/metrics.py of the bot): the conditional
\* expression nests as "ratio if loss else (inf if profit else 0.0)".
summarize_performance_profit_factor(pnls) ==
    LET gross_profit == GrossProfit(pnls)
        gross_loss == GrossLoss(pnls)
    IN  IF gross_loss # 0 THEN Finite(gross_profit, Abs(gross_loss))
        ELSE IF gross_profit > 0 THEN Infinite
        ELSE Finite(0, 1)

\* compute_performance_report (src/backtesting/metrics.py)
compute_performance_report_profit_factor(pnls) ==
    LET gross_profit == GrossProfit(pnls)
        gross_loss == GrossLoss(pnls)
    IN  IF gross_loss # 0 THEN Finite(gross_profit, Abs(gross_loss))
        ELSE Infinite

\* The pnl of the trades handed to a report.
TradePnls == {-2, -1, 0, 3}
TradeSets == UNION {[1..n -> TradePnls] : n \in 0..MaxTrades}

InitMetrics ==
    /\ max_holding_bars = 1
    /\ pc = "metrics"
    /\ idx = 0
    /\ day = 0
    /\ current_bars = NoBars
    /\ equity = 0
    /\ already_open = {}
    /\ balance = 0
    /\ open_positions = <<>>
    /\ trade_log = <<>>
    /\ equity_points = <<>>
    /\ account_state = NoAccount
    /\ positions = <<>>
    /\ daily_pnl = 0
    /\ max_drawdown = [num |-> 0, den |-> 1]
    /\ peak_equity = 0
    /\ last_loss_time = None
    /\ cooldown_active = FALSE
    /\ now = 0
    /\ next_id = 0
    /\ processed = <<>>
    /\ validations = <<>>
    /\ snapshots = NoSnapshots
    /\ loss_clock = None
    /\ call = NoCall
    /\ enforcer = NewRiskState
    /\ config = DefaultConfig
    /\ history = <<>>
    /\ market_snapshot = <<>>
    /\ emergency_stop = NoEmergencyStop
    /\ streamer = NewStreamer

CallSummarizePerformance ==
    /\ pc = "metrics"
    /\ \E pnls \in TradeSets :
          call' = [fn |-> "summarize_performance", args |-> <<pnls>>,
                   result |-> summarize_performance_profit_factor(pnls)]
    /\ UNCHANGED <<max_holding_bars, pc, idx, day, current_bars, equity,
                   balance, open_positions, trade_log, equity_points,
                   account_state, positions, daily_pnl, max_drawdown,
                   peak_equity, last_loss_time, cooldown_active, now, next_id,
                   processed, validations, already_open, snapshots,
                   loss_clock, enforcer, config, history, market_snapshot,
                   emergency_stop,
                   streamer>>

CallComputePerformanceReport ==
    /\ pc = "metrics"
    /\ \E pnls \in TradeSets :
          call' = [fn |-> "compute_performance_report", args |-> <<pnls>>,
                   result |-> compute_performance_report_profit_factor(pnls)]
    /\ UNCHANGED <<max_holding_bars, pc, idx, day, current_bars, equity,
                   balance, open_positions, trade_log, equity_points,
                   account_state, positions, daily_pnl, max_drawdown,
                   peak_equity, last_loss_time, cooldown_active, now, next_id,
                   processed, validations, already_open, snapshots,
                   loss_clock, enforcer, config, history, market_snapshot,
                   emergency_stop,
                   streamer>>

NextMetrics ==
    \/ CallSummarizePerformance
    \/ CallComputePerformanceReport

SpecMetrics == InitMetrics /\ [][NextMetrics]_vars

\* ------------------------------------------------- moving-average crossover
\* closes[last - n + 1] + ... + closes[last]
RECURSIVE WindowSum(_, _, _)
WindowSum(closes, last, n) ==
    IF n = 0 THEN 0 ELSE closes[last] + WindowSum(closes, last - 1, n - 1)

\* TrendFollowingGenerator.analyze for one symbol: the recommendations made
\* from the closes of the market snapshot.  The two means are compared by
\* cross-multiplication.
TrendFollowingGenerator_analyze(closes, trend_fast_period, trend_slow_period) ==
    LET fast_period == trend_fast_period
        slow_period == IF trend_slow_period <= fast_period
                       THEN fast_period + 1 ELSE trend_slow_period
    IN  IF Len(closes) >= slow_period
        THEN LET short_sum == WindowSum(closes, Len(closes), fast_period)
                 long_sum == WindowSum(closes, Len(closes), slow_period)
             IN  IF short_sum * slow_period > long_sum * fast_period
                 THEN <<"BUY">> ELSE <<>>
        ELSE <<>>

\* MovingAverageCrossoverStrategy.generate_signals without the volatility
\* filter (its default): np.where(fast > slow, 1, -1), where a comparison
\* with the NaN of an incomplete rolling window is false.
generate_signals(closes, fast_period, slow_period) ==
    [i \in 1..Len(closes) |->
        IF /\ i >= fast_period
           /\ i >= slow_period
           /\ WindowSum(closes, i, fast_period) * slow_period
                > WindowSum(closes, i, slow_period) * fast_period
        THEN 1 ELSE -1]

Sign(x) == IF x > 0 THEN 1 ELSE IF x < 0 THEN -1 ELSE 0

\* BacktestEngine._close_position; open_trade is <<>> or <<trade>>.
BacktestEngine_close_position(cfg, price, position, cash, open_trade, trades) ==
    LET direction == Sign(position)
        exec_price == price - cfg.slippage * direction
        trade_value == position * cfg.contract_size * exec_price
        commission == Abs(position) * cfg.commission_per_lot
        pnl == (exec_price - open_trade[1].entry_price)
                 * open_trade[1].direction * cfg.contract_size * Abs(position)
               - (open_trade[1].commission + commission)
    IN  [cash |-> cash + trade_value - commission,
         open_trade |-> <<>>,
         trades |-> IF open_trade # <<>> THEN Append(trades, pnl) ELSE trades]

\* BacktestEngine._open_or_scale_position
BacktestEngine_open_or_scale_position(cfg, price, current_position, desired_position, cash, open_trade) ==
    LET delta == desired_position - current_position
        direction == Sign(delta)
        exec_price == price + cfg.slippage * direction
        trade_value == delta * cfg.contract_size * exec_price
        commission == Abs(delta) * cfg.commission_per_lot
    IN  IF delta = 0
        THEN [position |-> current_position, cash |-> cash,
              open_trade |-> open_trade]
        ELSE [position |-> desired_position,
              cash |-> cash - trade_value - commission,
              open_trade |->
                 IF \/ open_trade = <<>>
                    \/ Sign(desired_position) # Sign(current_position)
                 THEN << [entry_price |-> exec_price,
                          direction |-> IF desired_position # 0
                                        THEN Sign(desired_position)
                                        ELSE direction,
                          commission |-> commission] >>
                 ELSE << [open_trade[1] EXCEPT
                            !.commission = @ + commission] >>]

\* What run() holds when it appends a bar's equity: positions_series' entry,
\* unrealized, the commission booked on the open trade and the number of
\* trades closed so far.
BarMark(position, unrealized, open_trade, trades) ==
    [position |-> position, unrealized |-> unrealized,
     open_commission |-> IF open_trade # <<>> THEN open_trade[1].commission ELSE 0,
     closed |-> Len(trades)]

\* run(), end of the loop body: equity_values.append(cash + unrealized).
BarRecorded(st, unrealized) ==
    [st EXCEPT !.equity_values = Append(@, st.cash + unrealized),
               !.marks = Append(@, BarMark(st.position, unrealized,
                                           st.open_trade, st.trades))]

\* One pass of the bar loop of BacktestEngine.run.
BacktestBar(cfg, price, signal, st) ==
    LET target_direction == Sign(signal)
        target_size == Abs(signal) * cfg.max_position
        closing == /\ st.position # 0
                   /\ \/ target_direction = 0
                      \/ Sign(st.position) # target_direction
        closed == BacktestEngine_close_position(cfg, price, st.position, st.cash,
                                  st.open_trade, st.trades)
        st1 == IF closing
               THEN [st EXCEPT !.cash = closed.cash,
                               !.open_trade = closed.open_trade,
                               !.trades = closed.trades,
                               !.position = 0]
               ELSE st
        desired_position == target_direction * target_size
        opened == BacktestEngine_open_or_scale_position(cfg, price, st1.position,
                                          desired_position, st1.cash,
                                          st1.open_trade)
        st2 == IF desired_position # st1.position
               THEN [st1 EXCEPT !.position = opened.position,
                                !.cash = opened.cash,
                                !.open_trade = opened.open_trade]
               ELSE st1
        unrealized == IF st2.open_trade # <<>> /\ st2.position # 0
                      THEN (price - st2.open_trade[1].entry_price)
                             * st2.open_trade[1].direction
                             * cfg.contract_size * Abs(st2.position)
                      ELSE 0
    IN  BarRecorded(st2, unrealized)

RECURSIVE BacktestFrom(_, _, _, _, _)
BacktestFrom(cfg, closes, signals, i, st) ==
    IF i > Len(closes) THEN st
    ELSE BacktestFrom(cfg, closes, signals, i + 1,
                      BacktestBar(cfg, closes[i], signals[i], st))

\* run() after the loop: a position still open is closed at the last close
\* and the last equity value replaced by the cash.
RunReturned(n, st, closed) ==
    IF st.position # 0 /\ st.open_trade # <<>>
    THEN [equity_curve |-> [st.equity_values EXCEPT ![n] = closed.cash],
          trades |-> closed.trades,
          marks |-> [st.marks EXCEPT ![n] = BarMark(0, 0, <<>>, closed.trades)]]
    ELSE [equity_curve |-> st.equity_values, trades |-> st.trades,
          marks |-> st.marks]

\* BacktestEngine.run with a MovingAverageCrossoverStrategy: the equity
\* curve and the pnl of the trades.
BacktestEngine_run(cfg, closes, fast_period, slow_period) ==
    LET signals == generate_signals(closes, fast_period, slow_period)
        st == BacktestFrom(cfg, closes, signals, 1,
                           [cash |-> cfg.initial_capital, position |-> 0,
                            open_trade |-> <<>>, trades |-> <<>>,
                            equity_values |-> <<>>, marks |-> <<>>])
        closed == BacktestEngine_close_position(cfg, closes[Len(closes)], st.position,
                                  st.cash, st.open_trade, st.trades)
    IN  RunReturned(Len(closes), st, closed)

\* Price series, strategy periods and engine configurations of the runs.
ClosePrices == {10, 11}
CloseSeries == UNION {[1..n -> ClosePrices] : n \in 1..MaxCloses}
FastPeriods == {1, 2}
SlowPeriods == {2, 3}
BacktestConfigs ==
    [initial_capital : {100}, contract_size : {1}, max_position : {1},
     commission_per_lot : {0, 1}, slippage : {0, 1}]

InitCrossover ==
    /\ max_holding_bars = 1
    /\ pc = "crossover"
    /\ idx = 0
    /\ day = 0
    /\ current_bars = NoBars
    /\ equity = 0
    /\ already_open = {}
    /\ balance = 0
    /\ open_positions = <<>>
    /\ trade_log = <<>>
    /\ equity_points = <<>>
    /\ account_state = NoAccount
    /\ positions = <<>>
    /\ daily_pnl = 0
    /\ max_drawdown = [num |-> 0, den |-> 1]
    /\ peak_equity = 0
    /\ last_loss_time = None
    /\ cooldown_active = FALSE
    /\ now = 0
    /\ next_id = 0
    /\ processed = <<>>
    /\ validations = <<>>
    /\ snapshots = NoSnapshots
    /\ loss_clock = None
    /\ call = NoCall
    /\ enforcer = NewRiskState
    /\ config = DefaultConfig
    /\ history = <<>>
    /\ market_snapshot = <<>>
    /\ emergency_stop = NoEmergencyStop
    /\ streamer = NewStreamer

\* Neither the generator nor the engine keeps anything from one call to the
\* next, so a behaviour makes one call.
CallTrendFollowingAnalyze ==
    /\ pc = "crossover"
    /\ call = NoCall
    /\ \E closes \in CloseSeries, f \in FastPeriods, sl \in SlowPeriods :
          call' = [fn |-> "TrendFollowingGenerator.analyze",
                   args |-> <<closes, f, sl>>,
                   result |-> [recommendations |->
                       TrendFollowingGenerator_analyze(closes, f, sl)]]
    /\ UNCHANGED <<max_holding_bars, pc, idx, day, current_bars, equity,
                   balance, open_positions, trade_log, equity_points,
                   account_state, positions, daily_pnl, max_drawdown,
                   peak_equity, last_loss_time, cooldown_active, now, next_id,
                   processed, validations, already_open, snapshots,
                   loss_clock, enforcer, config, history, market_snapshot,
                   emergency_stop,
                   streamer>>

CallBacktestEngineRun ==
    /\ pc = "crossover"
    /\ call = NoCall
    /\ \E closes \in CloseSeries, f \in FastPeriods, sl \in SlowPeriods,
          cfg \in BacktestConfigs :
          call' = [fn |-> "BacktestEngine.run",
                   args |-> <<closes, f, sl, cfg>>,
                   result |-> BacktestEngine_run(cfg, closes, f, sl)]
    /\ UNCHANGED <<max_holding_bars, pc, idx, day, current_bars, equity,
                   balance, open_positions, trade_log, equity_points,
                   account_state, positions, daily_pnl, max_drawdown,
                   peak_equity, last_loss_time, cooldown_active, now, next_id,
                   processed, validations, already_open, snapshots,
                   loss_clock, enforcer, config, history, market_snapshot,
                   emergency_stop,
                   streamer>>

NextCrossover ==
    \/ CallTrendFollowingAnalyze
    \/ CallBacktestEngineRun

SpecCrossover == InitCrossover /\ [][NextCrossover]_vars

\* ------------------------------------------------------------ total exposure
\* RiskState.get_total_exposure: 0.0 without an account snapshot, otherwise
\* the sum of the notionals over the equity, a float division that raises
\* ZeroDivisionError when the equity is 0.
get_total_exposure(acct, ps) ==
    IF ~acct.present THEN [raised |-> "", exposure |-> Frac(0, 1)]
    ELSE IF acct.equity = 0
    THEN [raised |-> "ZeroDivisionError", exposure |-> Frac(0, 1)]
    ELSE [raised |-> "", exposure |-> Frac(Notional(ps), acct.equity)]

ExposureEquities == {0, 50, 100}

InitExposure ==
    /\ max_holding_bars = 1
    /\ pc = "exposure"
    /\ idx = 0
    /\ day = 0
    /\ current_bars = NoBars
    /\ equity = 0
    /\ already_open = {}
    /\ balance = 0
    /\ open_positions = <<>>
    /\ trade_log = <<>>
    /\ equity_points = <<>>
    /\ account_state = NoAccount
    /\ positions = <<>>
    /\ daily_pnl = 0
    /\ max_drawdown = [num |-> 0, den |-> 1]
    /\ peak_equity = 0
    /\ last_loss_time = None
    /\ cooldown_active = FALSE
    /\ now = 0
    /\ next_id = 0
    /\ processed = <<>>
    /\ validations = <<>>
    /\ snapshots = NoSnapshots
    /\ loss_clock = None
    /\ call = NoCall
    /\ enforcer = NewRiskState
    /\ config = DefaultConfig
    /\ history = <<>>
    /\ market_snapshot = <<>>
    /\ emergency_stop = NoEmergencyStop
    /\ streamer = NewStreamer

\* RiskState.update_account(account_state)
ExposureUpdateAccount ==
    /\ pc = "exposure"
    /\ \E eq \in ExposureEquities :
          /\ account_state' = AccountState(100, eq, day)
          /\ peak_equity' = update_account_peak(peak_equity, eq)
          /\ max_drawdown' =
                update_account_drawdown(peak_equity, max_drawdown, eq)
          /\ daily_pnl' =
                update_account_daily_pnl(daily_pnl, account_state',
                                         account_state)
    /\ UNCHANGED <<max_holding_bars, pc, idx, day, current_bars, equity,
                   balance, open_positions, trade_log, equity_points,
                   positions, last_loss_time, cooldown_active, now, next_id,
                   processed, validations, already_open, snapshots,
                   loss_clock, call, enforcer, config, history,
                   market_snapshot,
                   emergency_stop,
                   streamer>>

\* RiskState.add_position(position)
ExposureAddPosition ==
    /\ pc = "exposure"
    /\ Len(positions) < MaxPositions
    /\ \E p \in RiskPositions :
          positions' = Append(positions,
                [symbol |-> p.symbol, volume |-> p.volume,
                 entry_price |-> p.entry_price,
                 current_price |-> p.current_price,
                 profit |-> p.profit, timestamp |-> now, id |-> next_id])
    /\ next_id' = next_id + 1
    /\ UNCHANGED <<max_holding_bars, pc, idx, day, current_bars, equity,
                   balance, open_positions, trade_log, equity_points,
                   account_state, daily_pnl, max_drawdown, peak_equity,
                   last_loss_time, cooldown_active, now, processed,
                   validations, already_open, snapshots, loss_clock, call,
                   enforcer, config, history, market_snapshot,
                   emergency_stop,
                   streamer>>

CallGetTotalExposure ==
    /\ pc = "exposure"
    /\ call' = [fn |-> "get_total_exposure",
                args |-> <<account_state, positions>>,
                result |-> get_total_exposure(account_state, positions)]
    /\ UNCHANGED <<max_holding_bars, pc, idx, day, current_bars, equity,
                   balance, open_positions, trade_log, equity_points,
                   account_state, positions, daily_pnl, max_drawdown,
                   peak_equity, last_loss_time, cooldown_active, now, next_id,
                   processed, validations, already_open, snapshots,
                   loss_clock, enforcer, config, history, market_snapshot,
                   emergency_stop,
                   streamer>>

NextExposure ==
    \/ ExposureUpdateAccount
    \/ ExposureAddPosition
    \/ CallGetTotalExposure

SpecExposure == InitExposure /\ [][NextExposure]_vars

\* ------------------------------------------------------------ emergency stop
\* EmergencyStop(limits): the default cooldown, timedelta(minutes=30).
EmergencyCooldownMinutes == 30

\* The limits the safety tests construct: max_daily_drawdown and
\* max_total_drawdown.
SafetyMaxDailyDrawdown == 1000
SafetyMaxTotalDrawdown == 5000

\* EmergencyStop.trigger: a stop that is already triggered keeps its reason
\* and its triggered_at.
trigger(state, reason, timestamp) ==
    IF ~state.triggered
    THEN [triggered |-> TRUE, reason |-> reason, triggered_at |-> timestamp]
    ELSE state

\* EmergencyStop.reset
reset(state, timestamp) ==
    IF ~state.triggered THEN state
    ELSE IF state.triggered_at = None THEN NoEmergencyStop
    ELSE IF timestamp - state.triggered_at >= EmergencyCooldownMinutes
    THEN NoEmergencyStop
    ELSE state

\* Faulty variant of check_account: an equity of exactly 0 is no breach.
check_account_negative_only(state, account, timestamp) ==
    LET reasons ==
            (IF Abs(account.daily_pl) > SafetyMaxDailyDrawdown
             THEN <<"emergency-daily-drawdown">> ELSE <<>>)
            \o (IF Abs(account.total_pl) > SafetyMaxTotalDrawdown
                THEN <<"emergency-total-drawdown">> ELSE <<>>)
            \o (IF account.equity < 0
                THEN <<"emergency-negative-equity">> ELSE <<>>)
    IN  [reasons |-> reasons,
         state |-> IF reasons # <<>> THEN trigger(state, reasons, timestamp)
                   ELSE reset(state, timestamp)]

\* EmergencyStop.check_account: the reasons it returns and the state it
\* leaves; the reason of a trigger is kept as the list that is joined.
check_account(state, account, timestamp) ==
    LET reasons ==
            (IF Abs(account.daily_pl) > SafetyMaxDailyDrawdown
             THEN <<"emergency-daily-drawdown">> ELSE <<>>)
            \o (IF Abs(account.total_pl) > SafetyMaxTotalDrawdown
                THEN <<"emergency-total-drawdown">> ELSE <<>>)
            \o (IF account.equity <= 0
                THEN <<"emergency-negative-equity">> ELSE <<>>)
    IN  [reasons |-> reasons,
         state |-> IF reasons # <<>> THEN trigger(state, reasons, timestamp)
                   ELSE reset(state, timestamp)]

\* EmergencyStop.allows_trading
allows_trading(state, timestamp) ==
    IF ~state.triggered THEN TRUE
    ELSE IF state.triggered_at = None THEN FALSE
    ELSE timestamp - state.triggered_at >= EmergencyCooldownMinutes

\* RiskLimits.validate_account, whose module is not in the source tree: the
\* safety tests expect a reason from it for an account beyond a drawdown
\* limit; it is taken to report each account-level breach, and whatever else
\* it reports is the caller's choice of other_reasons.
validate_account(account, other_reasons) ==
    (IF Abs(account.daily_pl) > SafetyMaxDailyDrawdown
     THEN <<"daily-drawdown">> ELSE <<>>)
    \o (IF Abs(account.total_pl) > SafetyMaxTotalDrawdown
        THEN <<"total-drawdown">> ELSE <<>>)
    \o (IF account.equity <= 0 THEN <<"equity-buffer">> ELSE <<>>)
    \o other_reasons

SeqToSet(seq) == {seq[i] : i \in 1..Len(seq)}

\* SafetyController.evaluate_order; order_reasons is what
\* validate_order_request returns for the order.
evaluate_order(state, account, timestamp, account_reasons, order_reasons) ==
    LET reasons ==
            (IF ~allows_trading(state, timestamp)
             THEN <<"emergency-stop-engaged">> ELSE <<>>)
            \o validate_account(account, account_reasons)
            \o order_reasons
        allowed == Len(reasons) = 0
    IN  [allowed |-> allowed, reasons |-> SeqToSet(reasons),
         account |-> account,
         state |-> IF ~allowed
                   THEN check_account(state, account, timestamp).state
                   ELSE state]

\* SafetyController.record_trade_outcome; the fields of the account that no
\* check reads are left out.
record_trade_outcome(state, account, result, timestamp, account_reasons) ==
    LET updated_account ==
            [equity |-> account.equity + result.profit - result.loss,
             daily_pl |-> account.daily_pl + result.profit - result.loss,
             total_pl |-> account.total_pl + result.profit - result.loss]
        checked == check_account(state, updated_account, timestamp)
        reasons == validate_account(updated_account, account_reasons)
                     \o checked.reasons
        allowed == Len(reasons) = 0
                     /\ allows_trading(checked.state, timestamp)
    IN  [allowed |-> allowed, reasons |-> SeqToSet(reasons),
         account |-> updated_account, state |-> checked.state]

\* Accounts, trade results and the reasons of the other validators.
SafetyAccounts ==
    [equity : {0, 10000}, daily_pl : {0, -1000, -2000}, total_pl : {0, -6000}]
SafetyResults == {[profit |-> 0, loss |-> 0], [profit |-> 0, loss |-> 6000]}
OtherAccountReasons == {<<>>, <<"daily-trade-limit">>}
OrderReasons == {<<>>, <<"missing-stop-loss">>}

InitSafety ==
    /\ max_holding_bars = 1
    /\ pc = "safety"
    /\ idx = 0
    /\ day = 0
    /\ current_bars = NoBars
    /\ equity = 0
    /\ already_open = {}
    /\ balance = 0
    /\ open_positions = <<>>
    /\ trade_log = <<>>
    /\ equity_points = <<>>
    /\ account_state = NoAccount
    /\ positions = <<>>
    /\ daily_pnl = 0
    /\ max_drawdown = [num |-> 0, den |-> 1]
    /\ peak_equity = 0
    /\ last_loss_time = None
    /\ cooldown_active = FALSE
    /\ now = 0
    /\ next_id = 0
    /\ processed = <<>>
    /\ validations = <<>>
    /\ snapshots = NoSnapshots
    /\ loss_clock = None
    /\ call = NoCall
    /\ enforcer = NewRiskState
    /\ config = DefaultConfig
    /\ history = <<>>
    /\ market_snapshot = <<>>
    /\ emergency_stop = NoEmergencyStop
    /\ streamer = NewStreamer

SafetyTick ==
    /\ pc = "safety"
    /\ now + ClockStep <= MaxClock
    /\ now' = now + ClockStep
    /\ UNCHANGED <<max_holding_bars, pc, idx, day, current_bars, equity,
                   balance, open_positions, trade_log, equity_points,
                   account_state, positions, daily_pnl, max_drawdown,
                   peak_equity, last_loss_time, cooldown_active, next_id,
                   processed, validations, already_open, snapshots,
                   loss_clock, call, enforcer, config, history,
                   market_snapshot, emergency_stop,
                   streamer>>

CallEvaluateOrder ==
    /\ pc = "safety"
    /\ \E account \in SafetyAccounts, ar \in OtherAccountReasons,
          orr \in OrderReasons :
          LET decision == evaluate_order(emergency_stop, account, now, ar, orr)
          IN  /\ emergency_stop' = decision.state
              /\ call' = [fn |-> "evaluate_order", args |-> <<account, now>>,
                          result |-> [allowed |-> decision.allowed,
                                      reasons |-> decision.reasons,
                                      account |-> decision.account]]
    /\ UNCHANGED <<max_holding_bars, pc, idx, day, current_bars, equity,
                   balance, open_positions, trade_log, equity_points,
                   account_state, positions, daily_pnl, max_drawdown,
                   peak_equity, last_loss_time, cooldown_active, now, next_id,
                   processed, validations, already_open, snapshots,
                   loss_clock, enforcer, config, history, market_snapshot,
                   streamer>>

CallRecordTradeOutcome ==
    /\ pc = "safety"
    /\ \E account \in SafetyAccounts, result \in SafetyResults,
          ar \in OtherAccountReasons :
          LET decision == record_trade_outcome(emergency_stop, account,
                                               result, now, ar)
          IN  /\ emergency_stop' = decision.state
              /\ call' = [fn |-> "record_trade_outcome",
                          args |-> <<account, now>>,
                          result |-> [allowed |-> decision.allowed,
                                      reasons |-> decision.reasons,
                                      account |-> decision.account]]
    /\ UNCHANGED <<max_holding_bars, pc, idx, day, current_bars, equity,
                   balance, open_positions, trade_log, equity_points,
                   account_state, positions, daily_pnl, max_drawdown,
                   peak_equity, last_loss_time, cooldown_active, now, next_id,
                   processed, validations, already_open, snapshots,
                   loss_clock, enforcer, config, history, market_snapshot,
                   streamer>>

CallCheckAccount ==
    /\ pc = "safety"
    /\ \E account \in SafetyAccounts :
          LET checked == check_account(emergency_stop, account, now)
          IN  /\ emergency_stop' = checked.state
              /\ call' = [fn |-> "check_account", args |-> <<account, now>>,
                          result |-> [reasons |-> checked.reasons]]
    /\ UNCHANGED <<max_holding_bars, pc, idx, day, current_bars, equity,
                   balance, open_positions, trade_log, equity_points,
                   account_state, positions, daily_pnl, max_drawdown,
                   peak_equity, last_loss_time, cooldown_active, now, next_id,
                   processed, validations, already_open, snapshots,
                   loss_clock, enforcer, config, history, market_snapshot,
                   streamer>>

NextSafety ==
    \/ SafetyTick
    \/ CallEvaluateOrder
    \/ CallRecordTradeOutcome
    \/ CallCheckAccount

SpecSafety == InitSafety /\ [][NextSafety]_vars

\* ---------------------------------------------------------- MT5 connection
\* Faulty variant of _initialize: a failed initialize leaves the flag alone.
_initialize_keeps_flag(connected, initialized) == connected

\* MT5ConnectionManager._initialize: the _connected flag it leaves, given
\* what api.initialize returned.
_initialize(connected, initialized) == IF ~initialized THEN FALSE ELSE connected

\* MT5ConnectionManager.select_symbol of a connected manager: the exception
\* it raises ("" for none), given what api.symbol_select returned.
select_symbol(selected) == IF ~selected THEN "MT5ConnectionError" ELSE ""

\* The attempt loop of MT5ConnectionManager.connect from one attempt on;
\* outcomes[n] is what the n-th api.initialize returns, and symbols the
\* results of api.symbol_select for auto_select_symbols.
RECURSIVE ConnectFrom(_, _, _, _, _)
ConnectFrom(attempt, connected, retries, outcomes, symbols) ==
    IF attempt > retries
    THEN [raised |-> "MT5ConnectionError", connected |-> connected,
          attempts |-> attempt - 1]
    ELSE IF outcomes[attempt]
    THEN [raised |-> IF \E k \in 1..Len(symbols) :
                          select_symbol(symbols[k]) # ""
                     THEN "MT5ConnectionError" ELSE "",
          connected |-> TRUE, attempts |-> attempt]
    ELSE ConnectFrom(attempt + 1, _initialize(connected, outcomes[attempt]),
                     retries, outcomes, symbols)

\* MT5ConnectionManager.connect
connect(connected, force, retries, outcomes, symbols) ==
    IF connected /\ ~force
    THEN [raised |-> "", connected |-> connected, attempts |-> 0]
    ELSE ConnectFrom(1, connected, retries, outcomes, symbols)

SymbolSelections == {<<>>, <<TRUE>>, <<FALSE>>}

InitConnection ==
    /\ max_holding_bars = 1
    /\ pc = "connection"
    /\ idx = 0
    /\ day = 0
    /\ current_bars = NoBars
    /\ equity = 0
    /\ already_open = {}
    /\ balance = 0
    /\ open_positions = <<>>
    /\ trade_log = <<>>
    /\ equity_points = <<>>
    /\ account_state = NoAccount
    /\ positions = <<>>
    /\ daily_pnl = 0
    /\ max_drawdown = [num |-> 0, den |-> 1]
    /\ peak_equity = 0
    /\ last_loss_time = None
    /\ cooldown_active = FALSE
    /\ now = 0
    /\ next_id = 0
    /\ processed = <<>>
    /\ validations = <<>>
    /\ snapshots = NoSnapshots
    /\ loss_clock = None
    /\ call = NoCall
    /\ enforcer = NewRiskState
    /\ config = DefaultConfig
    /\ history = <<>>
    /\ market_snapshot = <<>>
    /\ emergency_stop = NoEmergencyStop
    /\ streamer = NewStreamer

CallConnect ==
    /\ pc = "connection"
    /\ \E connected \in BOOLEAN, force \in BOOLEAN, retries \in 0..MaxRetries,
          symbols \in SymbolSelections :
          \E outcomes \in [1..retries -> BOOLEAN] :
             call' = [fn |-> "connect",
                      args |-> <<connected, force, retries, outcomes, symbols>>,
                      result |-> connect(connected, force, retries, outcomes,
                                         symbols)]
    /\ UNCHANGED <<max_holding_bars, pc, idx, day, current_bars, equity,
                   balance, open_positions, trade_log, equity_points,
                   account_state, positions, daily_pnl, max_drawdown,
                   peak_equity, last_loss_time, cooldown_active, now, next_id,
                   processed, validations, already_open, snapshots,
                   loss_clock, enforcer, config, history, market_snapshot,
                   emergency_stop,
                   streamer>>

NextConnection == CallConnect

SpecConnection == InitConnection /\ [][NextConnection]_vars

\* ------------------------------------- a second run() on the same engine
\* run() called again on the engine whose first run has returned, with the
\* same market frames.  run() rebinds its locals only (timeline, history,
\* equity_points, and in the loop idx, current_bars, equity, market_snapshot);
\* balance, open_positions, trade_log and the RiskEngine keep what the first
\* run left, since only __init__ assigns them.  What the first run returned
\* is kept in call for comparison.
RunAgain ==
    /\ pc = "done"
    /\ call = NoCall
    /\ call' = [fn |-> "run", args |-> <<history>>,
                result |-> [trades |-> trade_log, equity_curve |-> equity_points]]
    /\ pc' = "loop"
    /\ idx' = 0
    /\ equity_points' = <<>>
    /\ UNCHANGED <<max_holding_bars, day, current_bars, equity, balance,
                   open_positions, trade_log, account_state, positions,
                   daily_pnl, max_drawdown, peak_equity, last_loss_time,
                   cooldown_active, now, next_id, processed, validations,
                   already_open, snapshots, loss_clock, enforcer, config,
                   history, market_snapshot, emergency_stop,
                   streamer>>

NextRerun ==
    \/ Next
    \/ RunAgain

SpecRerun == Init /\ [][NextRerun]_vars

\* ------------------------------------------------------ MarketDataStreamer
\* Thread.is_alive() of self._thread, after the test that it is not None.
is_alive(s) ==
    IF s._thread = None THEN FALSE
    ELSE s.threads[s._thread] \in {"check", "poll"}

InitStreamer ==
    /\ max_holding_bars = 1
    /\ pc = "streamer"
    /\ idx = 0
    /\ day = 0
    /\ current_bars = NoBars
    /\ equity = 0
    /\ already_open = {}
    /\ balance = 0
    /\ open_positions = <<>>
    /\ trade_log = <<>>
    /\ equity_points = <<>>
    /\ account_state = NoAccount
    /\ positions = <<>>
    /\ daily_pnl = 0
    /\ max_drawdown = [num |-> 0, den |-> 1]
    /\ peak_equity = 0
    /\ last_loss_time = None
    /\ cooldown_active = FALSE
    /\ now = 0
    /\ next_id = 0
    /\ processed = <<>>
    /\ validations = <<>>
    /\ snapshots = NoSnapshots
    /\ loss_clock = None
    /\ call = NoCall
    /\ enforcer = NewRiskState
    /\ config = DefaultConfig
    /\ history = <<>>
    /\ market_snapshot = <<>>
    /\ emergency_stop = NoEmergencyStop
    /\ streamer = NewStreamer

\* subscribe_ticks up to the call of _ensure_running: the subscription is
\* registered under the lock, which is released before the call.
subscribe_ticks(c) ==
    /\ pc = "streamer"
    /\ streamer.callers[c] = "idle"
    /\ streamer' = [streamer EXCEPT !.ticks = TRUE, !.callers[c] = "ensure"]
    /\ UNCHANGED <<max_holding_bars, pc, idx, day, current_bars, equity,
                   balance, open_positions, trade_log, equity_points,
                   account_state, positions, daily_pnl, max_drawdown,
                   peak_equity, last_loss_time, cooldown_active, now, next_id,
                   processed, validations, already_open, snapshots,
                   loss_clock, call, enforcer, config, history,
                   market_snapshot, emergency_stop>>

\* subscribe_rates up to the call of _ensure_running.
subscribe_rates(c) ==
    /\ pc = "streamer"
    /\ streamer.callers[c] = "idle"
    /\ streamer' = [streamer EXCEPT !.rates = TRUE, !.callers[c] = "ensure"]
    /\ UNCHANGED <<max_holding_bars, pc, idx, day, current_bars, equity,
                   balance, open_positions, trade_log, equity_points,
                   account_state, positions, daily_pnl, max_drawdown,
                   peak_equity, last_loss_time, cooldown_active, now, next_id,
                   processed, validations, already_open, snapshots,
                   loss_clock, call, enforcer, config, history,
                   market_snapshot, emergency_stop>>

\* _ensure_running, the test: return when self._thread is alive.
_ensure_running_test(c) ==
    /\ pc = "streamer"
    /\ streamer.callers[c] = "ensure"
    /\ streamer' = [streamer EXCEPT
                      !.callers[c] = IF is_alive(streamer) THEN "idle" ELSE "start"]
    /\ UNCHANGED <<max_holding_bars, pc, idx, day, current_bars, equity,
                   balance, open_positions, trade_log, equity_points,
                   account_state, positions, daily_pnl, max_drawdown,
                   peak_equity, last_loss_time, cooldown_active, now, next_id,
                   processed, validations, already_open, snapshots,
                   loss_clock, call, enforcer, config, history,
                   market_snapshot, emergency_stop>>

\* _ensure_running, after the test: a new Thread is bound to self._thread and
\* started.
_ensure_running_start(c) ==
    /\ pc = "streamer"
    /\ streamer.callers[c] = "start"
    /\ \E t \in 1..MaxThreads :
          /\ streamer.threads[t] = "new"
          /\ \A u \in 1..(t - 1) : streamer.threads[u] # "new"
          /\ streamer' = [streamer EXCEPT !._thread = t, !.threads[t] = "check",
                                          !.callers[c] = "idle"]
    /\ UNCHANGED <<max_holding_bars, pc, idx, day, current_bars, equity,
                   balance, open_positions, trade_log, equity_points,
                   account_state, positions, daily_pnl, max_drawdown,
                   peak_equity, last_loss_time, cooldown_active, now, next_id,
                   processed, validations, already_open, snapshots,
                   loss_clock, call, enforcer, config, history,
                   market_snapshot, emergency_stop>>

\* unsubscribe_all up to the call of stop(): both tables cleared under the
\* lock.
unsubscribe_all(c) ==
    /\ pc = "streamer"
    /\ streamer.callers[c] = "idle"
    /\ streamer' = [streamer EXCEPT !.ticks = FALSE, !.rates = FALSE,
                                    !.callers[c] = "stop"]
    /\ UNCHANGED <<max_holding_bars, pc, idx, day, current_bars, equity,
                   balance, open_positions, trade_log, equity_points,
                   account_state, positions, daily_pnl, max_drawdown,
                   peak_equity, last_loss_time, cooldown_active, now, next_id,
                   processed, validations, already_open, snapshots,
                   loss_clock, call, enforcer, config, history,
                   market_snapshot, emergency_stop>>

\* stop(), first statement: self._stop.set().  A caller comes here directly
\* or from unsubscribe_all.
stop(c) ==
    /\ pc = "streamer"
    /\ streamer.callers[c] \in {"idle", "stop"}
    /\ streamer' = [streamer EXCEPT !._stop = TRUE, !.callers[c] = "join"]
    /\ UNCHANGED <<max_holding_bars, pc, idx, day, current_bars, equity,
                   balance, open_positions, trade_log, equity_points,
                   account_state, positions, daily_pnl, max_drawdown,
                   peak_equity, last_loss_time, cooldown_active, now, next_id,
                   processed, validations, already_open, snapshots,
                   loss_clock, call, enforcer, config, history,
                   market_snapshot, emergency_stop>>

\* stop(): the join is skipped without a live thread and returns when the
\* thread has exited.
stop_join_returns(c) ==
    /\ pc = "streamer"
    /\ streamer.callers[c] = "join"
    /\ ~is_alive(streamer)
    /\ streamer' = [streamer EXCEPT !.callers[c] = "clear_thread"]
    /\ UNCHANGED <<max_holding_bars, pc, idx, day, current_bars, equity,
                   balance, open_positions, trade_log, equity_points,
                   account_state, positions, daily_pnl, max_drawdown,
                   peak_equity, last_loss_time, cooldown_active, now, next_id,
                   processed, validations, already_open, snapshots,
                   loss_clock, call, enforcer, config, history,
                   market_snapshot, emergency_stop>>

\* stop(): join(timeout = 2 * poll_interval) returns with the thread still
\* inside the loop body (a callback or an API call that takes longer).
stop_join_expires(c) ==
    /\ pc = "streamer"
    /\ streamer.callers[c] = "join"
    /\ is_alive(streamer)
    /\ streamer.threads[streamer._thread] = "poll"
    /\ streamer' = [streamer EXCEPT !.callers[c] = "clear_thread",
                                    !.join_expired = TRUE]
    /\ UNCHANGED <<max_holding_bars, pc, idx, day, current_bars, equity,
                   balance, open_positions, trade_log, equity_points,
                   account_state, positions, daily_pnl, max_drawdown,
                   peak_equity, last_loss_time, cooldown_active, now, next_id,
                   processed, validations, already_open, snapshots,
                   loss_clock, call, enforcer, config, history,
                   market_snapshot, emergency_stop>>

\* stop(): self._thread = None.
stop_clear_thread(c) ==
    /\ pc = "streamer"
    /\ streamer.callers[c] = "clear_thread"
    /\ streamer' = [streamer EXCEPT !._thread = None, !.callers[c] = "clear_stop"]
    /\ UNCHANGED <<max_holding_bars, pc, idx, day, current_bars, equity,
                   balance, open_positions, trade_log, equity_points,
                   account_state, positions, daily_pnl, max_drawdown,
                   peak_equity, last_loss_time, cooldown_active, now, next_id,
                   processed, validations, already_open, snapshots,
                   loss_clock, call, enforcer, config, history,
                   market_snapshot, emergency_stop>>

\* stop(): self._stop.clear().
stop_clear_event(c) ==
    /\ pc = "streamer"
    /\ streamer.callers[c] = "clear_stop"
    /\ streamer' = [streamer EXCEPT !._stop = FALSE, !.callers[c] = "idle"]
    /\ UNCHANGED <<max_holding_bars, pc, idx, day, current_bars, equity,
                   balance, open_positions, trade_log, equity_points,
                   account_state, positions, daily_pnl, max_drawdown,
                   peak_equity, last_loss_time, cooldown_active, now, next_id,
                   processed, validations, already_open, snapshots,
                   loss_clock, call, enforcer, config, history,
                   market_snapshot, emergency_stop>>

\* _run, the loop test: the thread leaves when the stop event is set and
\* enters the loop body otherwise.
_run_test(t) ==
    /\ pc = "streamer"
    /\ streamer.threads[t] = "check"
    /\ streamer' = [streamer EXCEPT
                      !.threads[t] = IF streamer._stop THEN "exited" ELSE "poll"]
    /\ UNCHANGED <<max_holding_bars, pc, idx, day, current_bars, equity,
                   balance, open_positions, trade_log, equity_points,
                   account_state, positions, daily_pnl, max_drawdown,
                   peak_equity, last_loss_time, cooldown_active, now, next_id,
                   processed, validations, already_open, snapshots,
                   loss_clock, call, enforcer, config, history,
                   market_snapshot, emergency_stop>>

\* _run, the loop body: _emit_ticks, _emit_rates, sleep.
_run_body(t) ==
    /\ pc = "streamer"
    /\ streamer.threads[t] = "poll"
    /\ streamer' = [streamer EXCEPT !.threads[t] = "check"]
    /\ UNCHANGED <<max_holding_bars, pc, idx, day, current_bars, equity,
                   balance, open_positions, trade_log, equity_points,
                   account_state, positions, daily_pnl, max_drawdown,
                   peak_equity, last_loss_time, cooldown_active, now, next_id,
                   processed, validations, already_open, snapshots,
                   loss_clock, call, enforcer, config, history,
                   market_snapshot, emergency_stop>>

NextStreamer ==
    \/ \E c \in Callers : subscribe_ticks(c)
    \/ \E c \in Callers : subscribe_rates(c)
    \/ \E c \in Callers : _ensure_running_test(c)
    \/ \E c \in Callers : _ensure_running_start(c)
    \/ \E c \in Callers : unsubscribe_all(c)
    \/ \E c \in Callers : stop(c)
    \/ \E c \in Callers : stop_join_returns(c)
    \/ \E c \in Callers : stop_join_expires(c)
    \/ \E c \in Callers : stop_clear_thread(c)
    \/ \E c \in Callers : stop_clear_event(c)
    \/ \E t \in 1..MaxThreads : _run_test(t)
    \/ \E t \in 1..MaxThreads : _run_body(t)

SpecStreamer == InitStreamer /\ [][NextStreamer]_vars

\* ------------------------------------------------------------------ claims
\* The order in which the claim says the gates are evaluated.
ClaimedOrder == <<"cooldown", "drawdown", "daily_loss", "exposure">>

FirstBreached(breached) ==
    ClaimedOrder[CHOOSE i \in 1..Len(ClaimedOrder) :
                    /\ ClaimedOrder[i] \in breached
                    /\ \A j \in 1..(i - 1) : ClaimedOrder[j] \notin breached]

\* C1: validate_trade evaluates cooldown, drawdown, daily loss, exposure in
\* that order; the first failing check alone determines the reported
\* rejection, and the trade is accepted exactly when no check fails.
C1_FirstFailureInClaimedOrder ==
    \A i \in 1..Len(validations) :
        /\ validations[i].verdict.ok = (validations[i].breached = {})
        /\ validations[i].breached # {} =>
              validations[i].verdict.check = FirstBreached(validations[i].breached)

\* A state in which a validation met an active cooldown together with another
\* breached limit.
C1_CooldownAndAnotherBreach ==
    \E i \in 1..Len(validations) :
        /\ "cooldown" \in validations[i].breached
        /\ validations[i].breached # {"cooldown"}

\* The position a processed entry stood for hit both its stop and its target
\* on the bar.
BothLevelsHit(e) ==
    IF e.position.direction = "buy"
    THEN e.bar.low <= e.position.stop_loss /\ e.bar.high >= e.position.take_profit
    ELSE e.bar.high >= e.position.stop_loss /\ e.bar.low <= e.position.take_profit

SamePosition(t, p) ==
    /\ t.symbol = p.symbol
    /\ t.direction = p.direction
    /\ t.entry_time = p.entry_time

\* C2: when a bar reaches both the stop-loss and the take-profit of an open
\* position, BUY or SELL, the position is closed at the stop-loss price with
\* exit reason "stop", never at the target.
C2_StopBeforeTarget ==
    pc = "mark" =>
        \A i \in 1..Len(processed) :
            BothLevelsHit(processed[i]) =>
                /\ processed[i].reason = "stop"
                /\ \E k \in 1..Len(trade_log) :
                      /\ SamePosition(trade_log[k], processed[i].position)
                      /\ trade_log[k].exit_time = idx
                      /\ trade_log[k].exit_reason = "stop"
                      /\ trade_log[k].exit_price = processed[i].position.stop_loss
                /\ \A k \in 1..Len(trade_log) :
                      SamePosition(trade_log[k], processed[i].position)
                          => trade_log[k].exit_reason # "target"

C2_BothLevelsHitOnOneBar ==
    /\ pc = "mark"
    /\ \E i \in 1..Len(processed) :
          /\ BothLevelsHit(processed[i])
          /\ processed[i].position.direction = "buy"
          /\ processed[i].position.stop_loss < processed[i].position.take_profit
          /\ processed[i].reason = "stop"

\* C3: at no time are two SimulatedPositions open for the same
\* (symbol, direction) pair.
C3_OnePositionPerSymbolDirection ==
    \A i, j \in 1..Len(open_positions) :
        (/\ open_positions[i].symbol = open_positions[j].symbol
         /\ open_positions[i].direction = open_positions[j].direction) => i = j

\* A recommendation repeated the symbol and direction of a position opened by
\* an earlier recommendation of the same bar.
C3_RepeatedRecommendation ==
    /\ pc = "append"
    /\ \E k \in 1..Len(open_positions) :
          /\ <<open_positions[k].symbol, open_positions[k].direction>> \in already_open
          /\ open_positions[k].entry_time = idx

\* C4: every position that was opened is either still open or has produced
\* exactly one TradeResult, and when run() returns the trade log holds one
\* TradeResult per opened position.
C4_OneTradeResultPerPosition ==
    /\ Len(trade_log) + Len(open_positions) = next_id
    /\ \A i, j \in 1..Len(trade_log) :
          SamePosition(trade_log[i], trade_log[j]) => i = j
    /\ \A i \in 1..Len(trade_log), j \in 1..Len(open_positions) :
          ~SamePosition(trade_log[i], open_positions[j])
    /\ pc = "done" => Len(trade_log) = next_id

C4_ClosedInLoopAndAtEnd ==
    /\ pc = "done"
    /\ next_id >= 2
    /\ \E i, j \in 1..Len(trade_log) :
          /\ trade_log[i].exit_reason = "close"
          /\ trade_log[j].exit_reason \in {"stop", "target"}

\* C5: a close with realized pnl < 0 puts the risk engine in the cooling-down
\* state, and while less than the cooldown minutes have elapsed since the
\* last losing close no new position is opened.
C5_CooldownAfterLoss ==
    [][/\ (\E i \in (Len(trade_log) + 1)..Len(trade_log') : trade_log'[i].pnl < 0)
            => (cooldown_active' /\ last_loss_time' = now)
       /\ (loss_clock # None /\ now - loss_clock < CooldownMinutes)
            => next_id' = next_id]_vars

C5_EntryRejectedByCooldown ==
    /\ pc = "append"
    /\ \E i \in 1..Len(trade_log) : trade_log[i].pnl < 0
    /\ \E i \in 1..Len(validations) :
          /\ validations[i].verdict.check = "cooldown"
          /\ validations[i].clock - validations[i].loss_clock < CooldownMinutes

\* The fraction dd equals (peak - eq) / peak.
IsDrawdownOf(dd, peak, eq) == dd.num * peak = (peak - eq) * dd.den

C7_DailyPnlResetOnRollover ==
    snapshots.rolled => daily_pnl = 0

RECURSIVE SumSeq(_)
SumSeq(s) == IF s = <<>> THEN 0 ELSE Head(s) + SumSeq(Tail(s))

\* C8: on every bar the exits come first, then mark-to-market and the account
\* snapshot, then the entries, then the bar's equity point; every entry is
\* validated against the snapshot that reflects the exits of the same bar.
C8_BarStepOrder ==
    /\ pc \in {"mark", "signals", "append"} => Len(equity_points) = idx - 1
    /\ pc = "loop" => Len(equity_points) = idx
    /\ pc \in {"mark", "signals", "append"} =>
          \A i \in 1..Len(open_positions) :
              open_positions[i].entry_time < idx =>
                  /\ ExitOnBar(open_positions[i],
                               current_bars[open_positions[i].symbol]).price = None
                  /\ open_positions[i].bars_held < max_holding_bars
    /\ pc \in {"signals", "append"} =>
          /\ account_state = AccountState(balance, equity, day)
          /\ equity = balance
                + Unrealised(SelectSeq(open_positions,
                                       LAMBDA p : p.entry_time < idx), current_bars)
          /\ balance = InitialDeposit
                + SumSeq([i \in 1..Len(trade_log) |-> trade_log[i].pnl])
          /\ \A i \in 1..Len(validations) :
                validations[i].account = AccountState(balance, equity, day)

C8_EntryAfterExitOnSameBar ==
    /\ pc = "append"
    /\ \E i \in 1..Len(trade_log) : trade_log[i].exit_time = idx
    /\ \E i \in 1..Len(open_positions) : open_positions[i].entry_time = idx
    /\ validations # <<>>
    /\ account_state.balance # InitialDeposit

\* C9: when the series ends with positions open, each of them is closed at
\* the last bar's close with exit reason "close", and none is open when run
\* returns.
C9_LiquidationAtLastClose ==
    pc = "done" =>
        /\ open_positions = <<>>
        /\ \A i \in 1..Len(processed) :
              \E k \in 1..Len(trade_log) :
                  /\ SamePosition(trade_log[k], processed[i].position)
                  /\ trade_log[k].exit_reason = "close"
                  /\ trade_log[k].exit_price
                        = current_bars[processed[i].position.symbol].close
                  /\ trade_log[k].exit_time = idx
        /\ \A k \in 1..Len(trade_log) :
              trade_log[k].exit_reason = "close" =>
                  /\ trade_log[k].exit_time = idx
                  /\ trade_log[k].exit_price = current_bars[trade_log[k].symbol].close

C9_TwoPositionsLiquidated ==
    /\ pc = "done"
    /\ Len(processed) = 2
    /\ \A i \in 1..Len(processed) : processed[i].reason = "close"

\* C10: the equity curve of a run that returns has one point per bar
\* processed, plus one terminal point exactly when a position was still open
\* after the last bar.
C10_EquityCurveLength ==
    /\ pc = "done" =>
          Len(equity_points) = idx + (IF processed # <<>> THEN 1 ELSE 0)
    /\ pc = "done" =>
          (Len(equity_points) = idx + 1
              <=> \E k \in 1..Len(trade_log) : trade_log[k].exit_reason = "close")

C10_TerminalPointAppended ==
    /\ pc = "done"
    /\ idx = MaxBars
    /\ Len(equity_points) = idx + 1
    /\ equity_points[Len(equity_points)].equity = balance
    /\ equity_points[Len(equity_points)].time = idx

\* C11: a position whose bar reaches neither its stop nor its target is
\* closed at that bar's close with reason "timeout" as soon as bars_held >=
\* max_holding_bars; no position stays open for more than max_holding_bars bars.
C11_TimeoutAtMaxHoldingBars ==
    /\ \A i \in 1..Len(open_positions) :
          /\ open_positions[i].bars_held = idx - open_positions[i].entry_time
          /\ open_positions[i].bars_held < max_holding_bars
    /\ \A k \in 1..Len(trade_log) :
          trade_log[k].exit_time - trade_log[k].entry_time <= max_holding_bars
    /\ pc = "mark" =>
          \A i \in 1..Len(processed) :
              (/\ ExitOnBar(processed[i].position, processed[i].bar).price = None
               /\ processed[i].position.bars_held + 1 >= max_holding_bars) =>
                  \E k \in 1..Len(trade_log) :
                      /\ SamePosition(trade_log[k], processed[i].position)
                      /\ trade_log[k].exit_reason = "timeout"
                      /\ trade_log[k].exit_price = processed[i].bar.close
                      /\ trade_log[k].exit_time = idx

C11_PositionTimedOut ==
    /\ pc = "mark"
    /\ \E i \in 1..Len(processed) :
          /\ processed[i].reason = "timeout"
          /\ ExitOnBar(processed[i].position, processed[i].bar).price = None
          /\ processed[i].exit_price = processed[i].bar.close

\* A step in which check_cooldown() was called on its own.
CooldownChecked ==
    /\ validations' # <<>>
    /\ validations'[1].verdict.evaluated = <<"cooldown">>

\* C12: right after trigger_cooldown() a check_cooldown() fails; once at
\* least the cooldown minutes have elapsed since the trigger, check_cooldown()
\* passes and leaves the cooldown inactive, and it stays inactive, with every
\* check passing, until the next trigger_cooldown().
C12_CooldownLifecycle ==
    [][/\ daily_pnl' < daily_pnl =>
            /\ cooldown_active' /\ last_loss_time' = now
            /\ ~check_cooldown(cooldown_active', last_loss_time', now').ok
       /\ (CooldownChecked /\ loss_clock # None) =>
            /\ now - loss_clock < CooldownMinutes =>
                  (~validations'[1].verdict.ok /\ cooldown_active')
            /\ now - loss_clock >= CooldownMinutes =>
                  (validations'[1].verdict.ok /\ ~cooldown_active')
       /\ (CooldownChecked /\ loss_clock = None) => validations'[1].verdict.ok
       /\ (~cooldown_active /\ ~(daily_pnl' < daily_pnl)) =>
            (/\ ~cooldown_active'
             /\ CooldownChecked => validations'[1].verdict.ok)]_vars

C12_CooldownElapsed ==
    /\ pc = "risk"
    /\ validations # <<>>
    /\ validations[1].verdict.evaluated = <<"cooldown">>
    /\ validations[1].verdict.ok
    /\ validations[1].loss_clock # None
    /\ validations[1].clock - validations[1].loss_clock >= CooldownMinutes
    /\ ~cooldown_active

SizingFunctions ==
    {"calculate_position_size", "RiskEngine.calculate_position_size",
     "size_from_stop"}

IsMinLot(x) == x.num * 100 = x.den

MaxLotOf(fn) == IF fn = "size_from_stop" THEN config.position_sizing.max_lot
                ELSE IF fn = "calculate_position_size" THEN Frac(2, 1)
                ELSE Frac(10, 1)

\* The entry price and the stop the last sizing call worked with.
CallEntry == call.args[2]

CallStop == call.args[3]

\* C13: whatever the inputs, a sizing call returns a volume inside
\* [min lot, max lot]; with a zero stop distance it returns exactly the
\* minimum lot; it never ends in a division error or any other exception.
C13_SizingAlwaysReturnsBoundedLots ==
    call.fn \in SizingFunctions =>
        /\ call.result.raised = ""
        /\ ~FracLess(call.result.lots, Frac(1, 100))
        /\ ~FracLess(MaxLotOf(call.fn), call.result.lots)
        /\ (CallEntry = CallStop => IsMinLot(call.result.lots))

\* A sizing call whose entry price equals its stop price.
C13_ZeroStopDistance ==
    /\ call.fn = "size_from_stop"
    /\ call.args[4] > 0
    /\ CallEntry > 0
    /\ CallEntry = CallStop


\* C14: wherever the drawdown limit is enforced the comparison is the strict
\* one: a drawdown check passes while the drawdown is at most
\* max_drawdown_pct, equality included, and fails only above it.
C14_DrawdownCheckIsStrict ==
    call.fn = "_check_drawdown" =>
        (call.result.raised = ""
            <=> enforcer.current_drawdown.num * 100
                    <= EnforcerMaxDrawdownPct * enforcer.current_drawdown.den)

\* A drawdown check made with the drawdown exactly at the limit.
C14_DrawdownAtLimit ==
    /\ call.fn = "_check_drawdown"
    /\ enforcer.peak_equity > 0
    /\ enforcer.current_drawdown.num * 100
           = EnforcerMaxDrawdownPct * enforcer.current_drawdown.den

\* C15: a trade turned away by a risk check is reported by a returned
\* (false, reason) result, never by a raised exception: no check of the
\* enforcer ends in an exception.
C15_RejectionIsNeverAnException ==
    call.fn \in {"_check_cooldown", "_check_drawdown"} => call.result.raised = ""

\* A trade proposed while the cooling-off period is running.
C15_ProposedDuringCooldown ==
    /\ call.fn = "_check_cooldown"
    /\ enforcer.cooldown_until # None
    /\ call.args[1] < enforcer.cooldown_until

\* The configuration a constructor was called with is invalid: a non-positive
\* risk fraction, or a minimum lot above the maximum lot.
InvalidConfigGiven ==
    \/ /\ call.fn = "RiskEngine.__init__"
       /\ call.args[1].risk_per_trade_pct <= 0
    \/ /\ call.fn = "PositionSizer.__init__"
       /\ \/ call.args[1].risk_per_trade <= 0
          \/ FracLess(call.args[1].max_lot, call.args[1].min_lot)

\* C16: construction with a non-positive risk fraction or with min lot above
\* max lot fails with ConfigurationError, so that no engine or sizer ever
\* works with such a configuration.
C16_InvalidConfigFailsAtConstruction ==
    /\ InvalidConfigGiven => call.result.raised = "ConfigurationError"
    /\ config.risk.risk_per_trade_pct > 0
    /\ config.position_sizing.risk_per_trade > 0
    /\ ~FracLess(config.position_sizing.max_lot, config.position_sizing.min_lot)

\* A RiskEngine constructed with a non-positive risk fraction.
C16_EngineGivenInvalidConfig ==
    /\ call.fn = "RiskEngine.__init__"
    /\ call.args[1].risk_per_trade_pct <= 0

\* C17: no look-ahead.  On bar i the strategies are queried with the bars
\* 0..i of the series and nothing later, and what has been produced up to
\* bar i is made of those bars alone: every entry is priced from the close
\* of its own bar, every timeout or end-of-test exit from the close of its
\* own bar, and no entry, exit or equity point is dated after the current bar.
C17_NoLookAhead ==
    /\ Len(market_snapshot) <= idx
    /\ market_snapshot = SubSeq(history, 1, Len(market_snapshot))
    /\ pc = "append" => market_snapshot = SubSeq(history, 1, idx)
    /\ \A i \in 1..Len(open_positions) :
          LET p == open_positions[i]
          IN  /\ p.entry_time <= idx
              /\ p.entry_price
                    = _apply_costs(history[p.entry_time][p.symbol].close, p.direction)
    /\ \A k \in 1..Len(trade_log) :
          LET t == trade_log[k]
          IN  /\ t.entry_time <= t.exit_time
              /\ t.exit_time <= idx
              /\ t.entry_price
                    = _apply_costs(history[t.entry_time][t.symbol].close, t.direction)
              /\ t.exit_reason \in {"timeout", "end_of_test"} =>
                    t.exit_price = history[t.exit_time][t.symbol].close
    /\ \A k \in 1..Len(equity_points) : equity_points[k].time <= idx

\* The strategies have been queried on a bar that is not the last of the
\* series, and the later bar differs from every bar they were shown.
C17_QueriedBeforeLastBar ==
    /\ pc = "append"
    /\ 0 < idx
    /\ idx < Len(history)
    /\ Len(market_snapshot) = idx
    /\ \A i \in 1..idx : history[i] # history[idx + 1]
    /\ open_positions # <<>>

\* The wall-clock readings a run can see.
ClockValues == {t \in 0..MaxClock : t % ClockStep = 0}

\* What a list of open positions contributes to the trade log.
Entered(ops) ==
    [i \in 1..Len(ops) |->
        <<ops[i].symbol, ops[i].direction, ops[i].entry_time, ops[i].entry_price,
          ops[i].volume, ops[i].stop_loss, ops[i].take_profit>>]

\* C18: determinism.  With the bars, the parameters and the recommendations
\* given, what a bar's trade decisions produce does not depend on the wall
\* clock: at any later clock reading the same positions are opened.
C18_ResultIndependentOfClock ==
    pc = "signals" =>
        \A recs \in RecommendationLists, t \in ClockValues :
            t >= now =>
                Entered(_execute_recommendations(Engine, recs, current_bars,
                                                 idx, t).open_positions)
                  = Entered(_execute_recommendations(Engine, recs, current_bars,
                                                     idx, now).open_positions)

\* Trade decisions are due on a bar after a losing close has started the
\* cooldown.
C18_DecisionsDuringCooldown ==
    /\ pc = "signals"
    /\ cooldown_active
    /\ last_loss_time # None
    /\ open_positions = <<>>

\* The side whose fill is the worse one for a trader leaving a position.
ClosingSide(direction) == IF direction = "buy" THEN "sell" ELSE "buy"

\* C19: entry and exit are both filled at the reference price moved by
\* (spread_points + slippage_points) * point_value against the trader: a BUY
\* above the bar's close on entry and below the reference on exit, a SELL the
\* other way round.  (Checked on the exits whose reference is the bar's close.)
C19_CostsOnEntryAndExit ==
    \A k \in 1..Len(trade_log) :
        LET t == trade_log[k]
        IN  /\ t.entry_price
                  = _apply_costs(history[t.entry_time][t.symbol].close, t.direction)
            /\ t.exit_reason \in {"timeout", "end_of_test"} =>
                  t.exit_price
                    = _apply_costs(history[t.exit_time][t.symbol].close,
                                   ClosingSide(t.direction))

\* A position closed at a bar's close, where spread and slippage are not zero.
C19_ClosedAtBarClose ==
    \E k \in 1..Len(trade_log) :
        /\ trade_log[k].exit_reason = "timeout"
        /\ trade_log[k].direction = "buy"
        /\ _apply_costs(history[trade_log[k].exit_time][trade_log[k].symbol].close,
                        "sell")
             < history[trade_log[k].exit_time][trade_log[k].symbol].close
        /\ trade_log[k].entry_price
             > history[trade_log[k].entry_time][trade_log[k].symbol].close

\* The gross price pnl of a closed trade.
GrossPnl(t) ==
    IF t.direction = "buy" THEN (t.exit_price - t.entry_price) * t.volume
    ELSE (t.entry_price - t.exit_price) * t.volume

\* C20: on every close the recorded pnl is the gross price pnl minus the
\* per-lot commission times the position's volume in lots, and the fees
\* field is that commission.
C20_CommissionPerLotTimesLots ==
    \A k \in 1..Len(trade_log) :
        /\ trade_log[k].fees = CommissionPerLot * trade_log[k].volume
        /\ trade_log[k].pnl = GrossPnl(trade_log[k]) - trade_log[k].fees

\* A position of two lots has been closed.
C20_TwoLotsClosed ==
    \E k \in 1..Len(trade_log) :
        /\ trade_log[k].volume = 2
        /\ trade_log[k].pnl = GrossPnl(trade_log[k]) - trade_log[k].fees

\* C21: a plan is a non-empty list of windows in strictly advancing order,
\* consecutive windows one step (the out-of-sample length) apart, each with
\* train_start < train_end = test_start < test_end and inside [start, end];
\* a range too short for one window is an error, never an empty list.
C21_WindowsAdvanceInsideRange ==
    call.fn = "generate" =>
        LET w == call.result.windows
            start == call.args[3]
            end == call.args[4]
        IN  /\ call.result.raised = "" => w # <<>>
            /\ (call.args[1] > 0 /\ call.args[2] > 0
                    /\ start + call.args[1] + call.args[2] > end)
                  => call.result.raised # ""
            /\ \A k \in 1..Len(w) :
                  /\ w[k].in_start < w[k].in_end
                  /\ w[k].in_end = w[k].out_start
                  /\ w[k].out_start < w[k].out_end
                  /\ start <= w[k].in_start
                  /\ w[k].out_end <= end
                  /\ w[k].in_end - w[k].in_start = call.args[1]
                  /\ w[k].out_end - w[k].out_start = call.args[2]
            /\ w # <<>> => w[1].in_start = start
            /\ \A k \in 1..(Len(w) - 1) :
                  /\ w[k + 1].in_start = w[k].in_start + call.args[2]
                  /\ w[k].in_start < w[k + 1].in_start
            /\ (call.result.raised = "" /\ w # <<>>) =>
                  w[Len(w)].out_end + call.args[2] > end

\* A plan of several windows whose train and test lengths differ.
C21_SeveralWindows ==
    /\ call.fn = "generate"
    /\ Len(call.result.windows) >= 3
    /\ call.args[1] # call.args[2]

\* C22: the plan from 2024-01-01 to 2024-04-01 with 60 days in sample,
\* 30 days out of sample and a step of 30 days has exactly 2 windows, each
\* test window starting where its train window ends.
C22_ScenarioHasTwoWindows ==
    (call.fn = "generate" /\ call.args = <<60, 30, Date2024(1, 1), Date2024(4, 1)>>)
        => /\ call.result.raised = ""
           /\ Len(call.result.windows) = 2
           /\ \A k \in 1..Len(call.result.windows) :
                 call.result.windows[k].out_start = call.result.windows[k].in_end

\* The plan of the scenario has been generated.
C22_ScenarioPlanned ==
    /\ call.fn = "generate"
    /\ call.args = <<60, 30, 0, 91>>
    /\ call.result.raised = ""

\* The position of a parameter set in the enumeration of the grid.
EnumeratedAt(params) ==
    CHOOSE k \in 1..Len(Product(call.args[1], call.args[2])) :
        Product(call.args[1], call.args[2])[k] = params

\* C23: grid_search scores the cartesian product of the ranges and returns
\* the top-N results by descending score; among equal scores the parameter
\* set enumerated first ranks first, so leaderboard[0] is the earliest
\* enumerated parameter set with the maximum score.
C23_LeaderboardFirstSeenWins ==
    (call.fn = "grid_search" /\ call.result.raised = "" /\ call.args[4]) =>
        LET combos == Product(call.args[1], call.args[2])
            outcomes == call.args[3]
            board == call.result.leaderboard
        IN  /\ Len(combos) = Len(call.args[1]) * Len(call.args[2])
            /\ \A f \in 1..Len(call.args[1]), sl \in 1..Len(call.args[2]) :
                  \E k \in 1..Len(combos) :
                     /\ combos[k].fast_period = call.args[1][f]
                     /\ combos[k].slow_period = call.args[2][sl]
            /\ call.result.evaluated = Len(combos)
            /\ Len(board) = Min(call.args[5], Len(combos))
            /\ \A i \in 1..Len(board) :
                  board[i].score = outcomes[EnumeratedAt(board[i].params)]
            /\ \A i \in 1..(Len(board) - 1) :
                  \/ board[i].score > board[i + 1].score
                  \/ /\ board[i].score = board[i + 1].score
                     /\ EnumeratedAt(board[i].params) < EnumeratedAt(board[i + 1].params)
            /\ \A k \in 1..Len(combos) :
                  \/ \E i \in 1..Len(board) : board[i].params = combos[k]
                  \/ outcomes[k] <= board[Len(board)].score
            /\ \A k \in 1..Len(combos) :
                  /\ outcomes[k] <= board[1].score
                  /\ outcomes[k] = board[1].score => EnumeratedAt(board[1].params) <= k

\* Several parameter sets share the maximum score, and the first of them is
\* not the first of the grid.
C23_TieForTheLead ==
    /\ call.fn = "grid_search"
    /\ call.result.raised = ""
    /\ call.args[4]
    /\ Len(call.args[3]) = 4
    /\ call.args[3][1] = 1
    /\ call.args[3][2] = 2
    /\ call.args[3][4] = 2
    /\ call.args[5] >= 2

\* The orders in which n evaluations can complete.
CompletionOrders(n) == {p \in [1..n -> 1..n] : \A i, j \in 1..n : p[i] = p[j] => i = j}

\* C24: the selected parameter set does not depend on the order in which the
\* evaluations complete: for every permutation of the same scored results the
\* merge step, _sorted, puts the same parameter set first.
C24_SelectionIndependentOfCompletionOrder ==
    (call.fn = "grid_search" /\ call.result.raised = "") =>
        LET results == EvaluateFrom(Product(call.args[1], call.args[2]),
                                    call.args[3], 1, <<>>).results
        IN  \A p \in CompletionOrders(Len(results)) :
                _sorted([i \in 1..Len(results) |-> results[p[i]]], call.args[4])[1].params
                    = call.result.leaderboard[1].params

\* A sweep of four evaluations, two of which share the best score.
C24_TwoBestResults ==
    /\ call.fn = "grid_search"
    /\ call.result.raised = ""
    /\ Len(call.args[3]) = 4
    /\ Cardinality({k \in 1..4 : call.args[3][k] = 2}) = 2

\* The windows a walk-forward run has to evaluate.
WindowsOf(args) ==
    IF args[1] - args[2] - args[3] < 0 THEN <<>>
    ELSE WindowStarts(0, args[1] - args[2] - args[3] + 1,
                      IF args[4] = None THEN args[3] ELSE args[4])

\* C25: a window or parameter set whose simulation fails is marked as failed
\* and the sweep goes on: every window and every parameter set is evaluated,
\* the call does not raise, and the results scored are all kept.
C25_FailureDoesNotAbortSweep ==
    /\ (call.fn = "WalkForwardAnalyzer.run" /\ WindowsOf(call.args) # <<>>) =>
          /\ call.result.raised = ""
          /\ call.result.evaluated = Len(WindowsOf(call.args))
          /\ Len(call.result.slices)
               = Cardinality({k \in 1..Len(WindowsOf(call.args)) : call.args[5][k] # None})
    /\ call.fn = "grid_search" =>
          /\ call.result.raised = ""
          /\ call.result.evaluated = Len(call.args[3])

\* A run of three windows whose second window fails.
C25_SecondWindowFails ==
    /\ call.fn = "WalkForwardAnalyzer.run"
    /\ Len(WindowsOf(call.args)) = 3
    /\ call.args[5][1] # None
    /\ call.args[5][2] = None
    /\ call.args[5][3] # None

\* C26: the profit factor is gross profit / |gross loss| when the gross loss
\* is not zero, 0 whenever there is no profit (an empty trade set included),
\* and the infinite sentinel only when there is profit and no loss.
C26_ProfitFactorEdgeCases ==
    call.fn \in {"summarize_performance", "compute_performance_report"} =>
        LET profit == GrossProfit(call.args[1])
            loss == GrossLoss(call.args[1])
        IN  /\ loss # 0 => /\ ~call.result.inf
                           /\ call.result.den # 0
                           /\ call.result.num * Abs(loss) = profit * call.result.den
            /\ profit = 0 => (~call.result.inf /\ call.result.num = 0)
            /\ call.result.inf <=> (profit > 0 /\ loss = 0)

\* A report over an empty trade set.
C26_NoTrades ==
    /\ call.fn = "compute_performance_report"
    /\ call.args[1] = <<>>

IsFlat(closes) == \A i \in 1..Len(closes) : closes[i] = closes[1]

\* C27: on a perfectly flat price series a trend-following signal source
\* recommends nothing, and the run has zero trades and an equity curve that
\* equals the initial deposit at every point.
C27_FlatSeriesNeverTrades ==
    /\ (call.fn = "TrendFollowingGenerator.analyze" /\ IsFlat(call.args[1]))
          => call.result.recommendations = <<>>
    /\ (call.fn = "BacktestEngine.run" /\ IsFlat(call.args[1]))
          => /\ call.result.trades = <<>>
             /\ \A i \in 1..Len(call.result.equity_curve) :
                   call.result.equity_curve[i] = call.args[4].initial_capital

\* A backtest of the crossover strategy over three equal closes.
C27_FlatSeriesRun ==
    /\ call.fn = "BacktestEngine.run"
    /\ Len(call.args[1]) = 3
    /\ IsFlat(call.args[1])

\* C28: calculate_position_size returns 0.0 for invalid inputs: a negative
\* balance, a zero entry price, a zero stop price, or a stop equal to the
\* entry.
C28_InvalidInputsReturnZero ==
    (/\ call.fn = "calculate_position_size"
     /\ \/ call.args[1] < 0
        \/ call.args[2] = 0
        \/ call.args[3] = 0
        \/ call.args[2] = call.args[3])
      => (call.result.raised = "" /\ call.result.lots.num = 0)

\* A direct sizing call with a negative balance and otherwise valid prices.
C28_NegativeBalanceSized ==
    /\ call.fn = "calculate_position_size"
    /\ call.args[1] < 0
    /\ call.args[2] > 0
    /\ call.args[3] > 0
    /\ call.args[2] # call.args[3]

\* RiskConfig.max_position_size_pct, in percent.
MaxPositionSizePct == 10

\* x <= y for fractions with positive denominators, comparing the integer
\* parts before the remainders so that no product leaves the integer range.
FracLeq(x, y) ==
    IF x.num \div x.den # y.num \div y.den
    THEN x.num \div x.den < y.num \div y.den
    ELSE (x.num % x.den) * y.den <= (y.num % y.den) * x.den

\* balance * max_position_size_pct / entry_price, the entry price being in
\* points of 0.0001.
MaxAllocation(account_balance, entry_price) ==
    Frac(account_balance * MaxPositionSizePct * 100, entry_price)

\* C29: for every positive balance, entry price and stop price the size that
\* calculate_position_size returns is at most
\* balance * max_position_size_pct / entry_price.
C29_SizeCappedAtMaxAllocation ==
    (/\ call.fn = "calculate_position_size"
     /\ call.args[1] > 0
     /\ call.args[2] > 0
     /\ call.args[3] > 0)
      => /\ call.result.raised = ""
         /\ FracLeq(call.result.lots,
                    MaxAllocation(call.args[1], call.args[2]))

\* A small account sized on a symbol whose price is above ten times the
\* balance.
C29_SmallAccountSized ==
    /\ call.fn = "calculate_position_size"
    /\ call.args[1] > 0
    /\ call.args[3] > 0
    /\ call.args[2] \div 100000 > call.args[1]

\* C30: with an account snapshot whose equity is 0, get_total_exposure
\* returns 0.0 and raises no error, even when positions are registered.
C30_ZeroEquityExposureIsZero ==
    (/\ call.fn = "get_total_exposure"
     /\ call.args[1].present
     /\ call.args[1].equity = 0)
      => (call.result.raised = "" /\ call.result.exposure.num = 0)

\* The exposure asked for with a zero-equity snapshot and a registered
\* position.
C30_ZeroEquityWithPosition ==
    /\ call.fn = "get_total_exposure"
    /\ call.args[1].present
    /\ call.args[1].equity = 0
    /\ call.args[2] # <<>>

\* C31: over N bars with train size T, test size S and step k (S when no
\* step is given) the run raises when N < T + S; otherwise, when no window's
\* evaluation fails, it yields floor((N - T - S) / k) + 1 slices numbered from
\* 0, slice i training on bars [i*k, i*k + T) and testing on the bars
\* [i*k + T, i*k + T + S) that follow.
C31_SliceArithmetic ==
    call.fn = "WalkForwardAnalyzer.run" =>
        LET N == call.args[1]
            T == call.args[2]
            S == call.args[3]
            k == IF call.args[4] = None THEN S ELSE call.args[4]
            slices == call.result.slices
        IN  /\ N < T + S => call.result.raised = "ValueError"
            /\ (N >= T + S /\ call.result.raised = "") =>
                  /\ Len(slices) = ((N - T - S) \div k) + 1
                  /\ \A n \in 1..Len(slices) :
                        LET i == n - 1
                        IN  /\ slices[n].index = i
                            /\ slices[n].train_range = <<i * k, i * k + T - 1>>
                            /\ slices[n].test_range
                                 = <<i * k + T, i * k + T + S - 1>>
                            /\ slices[n].train_range[2] < slices[n].test_range[1]
                            /\ slices[n].test_range[2] < N

\* A run of two slices whose windows overlap: the step is below the test size.
C31_OverlappingWindows ==
    /\ call.fn = "WalkForwardAnalyzer.run"
    /\ call.result.raised = ""
    /\ Len(call.result.slices) >= 2
    /\ call.args[4] # None
    /\ call.args[4] < call.args[3]

AccountBreached(account) ==
    \/ Abs(account.daily_pl) > SafetyMaxDailyDrawdown
    \/ Abs(account.total_pl) > SafetyMaxTotalDrawdown
    \/ account.equity <= 0

C33_ConnectRetries ==
    call.fn = "connect" =>
        LET retries == call.args[3]
            outcomes == call.args[4]
            skipped == call.args[1] /\ ~call.args[2]
            successes == {n \in 1..retries : outcomes[n]}
        IN  /\ call.result.attempts <= retries
            /\ (~skipped /\ successes # {}) =>
                  /\ call.result.connected
                  /\ call.result.attempts \in successes
                  /\ \A n \in successes : call.result.attempts <= n
            /\ (~skipped /\ retries >= 1 /\ successes = {}) =>
                  /\ call.result.raised = "MT5ConnectionError"
                  /\ ~call.result.connected
                  /\ call.result.attempts = retries

\* A forced connect of a connected manager, all of whose attempts fail.
C33_ForcedReconnectFails ==
    /\ call.fn = "connect"
    /\ call.args[1]
    /\ call.args[2]
    /\ call.args[3] >= 2
    /\ \A n \in 1..call.args[3] : ~call.args[4][n]
    /\ call.result.raised = "MT5ConnectionError"

\* C34: the equity recorded for a bar is the equity after that bar's trade
\* decisions: the balance plus the unrealised pnl, at the bar's close, of
\* every position then open, the ones entered on the bar with their entry
\* costs included.
C34_EquitySampledAfterDecisions ==
    (/\ pc = "loop"
     /\ equity_points # <<>>
     /\ equity_points[Len(equity_points)].time = idx)
      => equity_points[Len(equity_points)].equity
           = balance + Unrealised(open_positions, current_bars)

\* A bar's equity point has been recorded and a position was entered on
\* that bar.
C34_EnteredOnRecordedBar ==
    /\ pc = "loop"
    /\ equity_points # <<>>
    /\ equity_points[Len(equity_points)].time = idx
    /\ \E i \in 1..Len(open_positions) : open_positions[i].entry_time = idx

\* C35: after a check_account that reports a breach at time t,
\* allows_trading is false at every time in [t, t + cooldown), also when the
\* stop had been triggered earlier and its cooldown has elapsed with no
\* breach-free check in between.
C35_BreachBlocksForCooldown ==
    (/\ call.fn = "check_account"
     /\ call.result.reasons # <<>>
     /\ call.args[2] <= now
     /\ now < call.args[2] + EmergencyCooldownMinutes)
      => ~allows_trading(emergency_stop, now)

\* A breach is reported while the stop is still triggered from a breach
\* whose cooldown has elapsed.
C35_BreachAfterElapsedCooldown ==
    /\ call.fn = "check_account"
    /\ call.result.reasons # <<>>
    /\ emergency_stop.triggered
    /\ call.args[2] - emergency_stop.triggered_at >= EmergencyCooldownMinutes

RECURSIVE TotalPnl(_)
TotalPnl(log) == IF log = <<>> THEN 0 ELSE Head(log).pnl + TotalPnl(Tail(log))

\* C36: after every bar the balance is the initial deposit plus the pnl of
\* all trades logged so far, and when run returns the last point of the
\* equity curve is that balance.
C36_BalanceConservation ==
    /\ pc \in {"loop", "done"} =>
          balance = InitialDeposit + TotalPnl(trade_log)
    /\ pc = "done" =>
          equity_points[Len(equity_points)].equity = balance

\* A run has returned after closing one position on a bar and another at
\* the end of the series, each with a pnl that is not zero.
C36_ClosedInRunAndAtEnd ==
    /\ pc = "done"
    /\ \E j, k \in 1..Len(trade_log) :
          /\ trade_log[j].exit_reason # "close"
          /\ trade_log[j].pnl # 0
          /\ trade_log[k].exit_reason = "close"
          /\ trade_log[k].pnl # 0

\* C37: a second run() on the same engine with the same market data starts
\* from the initial deposit with no open positions, an empty trade log and a
\* risk engine without cooldown, peak equity or daily pnl, and it returns the
\* trades and the equity curve the first run returned.
C37_SecondRunStartsFresh ==
    /\ (call.fn = "run" /\ pc = "loop" /\ idx = 0) =>
           /\ balance = InitialDeposit
           /\ open_positions = <<>>
           /\ trade_log = <<>>
           /\ ~cooldown_active
           /\ peak_equity = 0
           /\ daily_pnl = 0
    /\ (call.fn = "run" /\ pc = "done") =>
           /\ trade_log = call.result.trades
           /\ equity_points = call.result.equity_curve

\* The first run closed a trade at a loss and the second run has returned.
C37_SecondRunAfterLoss ==
    /\ call.fn = "run"
    /\ pc = "done"
    /\ call.result.trades # <<>>
    /\ call.result.trades[1].pnl < 0

\* C38: immediately after an entry approved by validate_trade has been
\* opened, the total exposure of the registered positions, the new one
\* included, is at most max_total_exposure_pct of the equity.
C38_ExposureWithinLimitAfterEntry ==
    (/\ pc = "append"
     /\ \E i \in 1..Len(open_positions) : open_positions[i].entry_time = idx)
      => Notional(positions) * 100 <= MaxTotalExposurePct * account_state.equity

\* An entry has been approved and opened on this bar while no other position
\* was registered, so the exposure check saw an exposure of 0.
C38_FirstEntryOpened ==
    /\ pc = "append"
    /\ Len(open_positions) = 1
    /\ open_positions[1].entry_time = idx
    /\ Len(validations) = 1
    /\ validations[1].verdict.ok

\* The pnl of the first n trades of a list.
RECURSIVE SumFirst(_, _)
SumFirst(pnls, n) ==
    IF n = 0 THEN 0 ELSE SumFirst(pnls, n - 1) + pnls[n]

\* C39: the equity BacktestEngine.run records at every bar is the initial
\* capital plus the realized pnl of the closed trades plus the unrealized pnl
\* of the open position minus the commissions paid so far (those of the closed
\* trades are netted in their pnl, those of the open trade are booked on it),
\* with a position open or flat; and the final equity minus the initial
\* capital is the sum of the pnl of the returned trades.
C39_EquityAccounting ==
    call.fn = "BacktestEngine.run" =>
        LET r == call.result
            cfg == call.args[4]
            n == Len(r.equity_curve)
        IN  /\ \A i \in 1..n :
                  r.equity_curve[i]
                     = cfg.initial_capital + SumFirst(r.trades, r.marks[i].closed)
                         + r.marks[i].unrealized - r.marks[i].open_commission
            /\ r.equity_curve[n] - cfg.initial_capital
                  = SumFirst(r.trades, Len(r.trades))

\* A run that holds a position over a bar and closes a trade.
C39_PositionHeldOverBar ==
    /\ call.fn = "BacktestEngine.run"
    /\ \E i \in 1..Len(call.result.marks) : call.result.marks[i].position # 0
    /\ call.result.trades # <<>>

\* The polling threads that are running.
Polling == {t \in 1..MaxThreads : streamer.threads[t] \in {"check", "poll"}}

\* C40: at every moment at most one polling thread of a MarketDataStreamer
\* is running, whatever the interleaving of subscribe_ticks, subscribe_rates,
\* unsubscribe_all and stop, a stop whose timed join expires followed by a
\* new subscription included.
C40_AtMostOnePollingThread ==
    Cardinality(Polling) <= 1

\* A stop() gave up the join while the thread was polling, a later
\* subscription started a second thread, and every call has returned.
C40_NewThreadAfterExpiredJoin ==
    /\ pc = "streamer"
    /\ streamer.join_expired
    /\ streamer._thread = 2
    /\ Polling = {1, 2}
    /\ streamer.callers = [c \in Callers |-> "idle"]

====
